---- MODULE Spec2Model ----
(***************************************************************************)
(* A model of pnnp's acquisition and transcode pipeline:                   *)
(*   - monochrome::Monochrome::download_mpd (crates/monochrome/src/lib.rs) *)
(*     the segmented streamer: manifest parsing, timeline expansion, the   *)
(*     ordered queue of spawned segment fetches under the chunk semaphore; *)
(*   - pnnp::pipeline::Pipeline::begin (crates/pnnp/src/pipeline.rs)       *)
(*     the per-track fan-out with the existence check, the track           *)
(*     semaphore and the retry loop;                                       *)
(*   - pnnp::ffmpeg::Transcoder::run (crates/pnnp/src/ffmpeg.rs)           *)
(*     the encoder driver and its progress events;                         *)
(*   - pnnp::bot::progress::ProgressTask::run (bot/progress.rs)            *)
(*     the single-consumer aggregator.                                     *)
(***************************************************************************)
EXTENDS Integers, Sequences, FiniteSets, TLC

VARIABLES
    \* ---- segmented streamer (download_mpd) ----
    streams,       \* the set of download_mpd invocations of this run
    manifest,      \* stream -> the decoded manifest document handed to download_mpd
    phase,         \* stream -> position of download_mpd / of its try_stream body
    mpdErr,        \* stream -> the MonochromeManifestError kind returned, or NoErr
    startNumber,   \* stream -> the local start_number
    segmentCounts, \* stream -> the local segment_counts
    segs,          \* stream -> sequence of spawned media fetches [number, state]
    emitted,       \* stream -> the items the stream has yielded so far, in order
    overtook,      \* stream -> history: some fetch finished before an earlier one
    chunkCap,      \* config.downloads.chunk_concurrency
    chunkPermits,  \* permits available in chunk_semaphore
    \* ---- download_track, the caller of download_mpd ----
    payload,       \* Track.manifest: the transport-encoded manifest of the call
    dlResult,      \* what the call has done so far and returned
    non200,        \* history: <<stream, segment>> whose response had a status other than 200
    \* ---- Pipeline::begin, one instance per album run ----
    runs,          \* the set of album runs (Pipeline instances)
    albumOf,       \* run -> album id
    ntracks,       \* run -> number of tracks of the album (album.tracks.len())
    doneSent,      \* run -> history: Done messages the run's handler has sent
    cursor,        \* run -> position of begin: 0 not called, i in the loop, n+1 art, n+2 returned
    checked,       \* run -> the current track passed the existence check, begin awaits a permit
    trackCap,      \* config.downloads.track_concurrency
    trackPermits,  \* permits available in track_semaphore
    files,         \* the output paths that exist on disk
    maxChunks,     \* the longest byte stream (in chunks) the catalog serves
    \* ---- one spawned task per admitted track ----
    orphaned,      \* the tasks with an ffmpeg process of a failed attempt still running
    multiArtist,   \* task -> the track has more than one artist
    pc,            \* task -> position of the task
    holds,         \* task -> the task owns a track permit
    attempts,      \* task -> attempts started by Retry::spawn
    failures,      \* task -> history: attempts that returned Err
    manifestFetches, \* task -> history: client.track requests sent
    encoderStarted, \* task -> history: an ffmpeg process was spawned
    downloaded,    \* task -> Transcoder::run's local `downloaded`
    chunksRead,    \* task -> chunks taken from the stream in this attempt
    written,       \* task -> history: bytes written to the encoder's stdin in this attempt
    log,           \* task -> history: the progress states sent in this attempt
    finishedSent,  \* task -> history: Finished events sent over all attempts
    existedAtCheck, \* task -> history: what the existence check of begin saw
    lastErr,       \* task -> the error the last failed attempt returned, and its cause
    \* ---- the album-art task of each run ----
    artPc,         \* run -> position of the album-art task
    artAttempts,   \* run -> attempts started
    partialCovers, \* history: the cover paths created by an attempt that has not written the whole image
    \* ---- progress channel and ProgressTask ----
    chan,          \* the messages in the unbounded channel, oldest first
    rxAlive,       \* the receiver exists (ProgressTask::run has not returned)
    albums,        \* ProgressTask.albums: album id -> track index -> TrackProgress
    pendingEdit,   \* ProgressTask::run's local pending_edit
    sinceEdit,     \* last_edit.elapsed() in ticks, counted up to one second
    topElapsed,    \* last_edit.elapsed() when the current loop iteration began
    sinceRender,   \* history: ticks since the last message edit, up to one second
    refreshCalls,  \* history: refresh_library calls made for the last handled message
    refreshOutcome, \* history: what that call returned, or "none"
    refreshFailed  \* history: some refresh_library call returned Err

dlVars == <<payload, dlResult>>

mpdVars == <<streams, manifest, phase, mpdErr, startNumber, segmentCounts, segs, emitted,
             overtook, chunkCap, chunkPermits, dlVars, non200>>

beginVars == <<runs, albumOf, ntracks, doneSent, cursor, checked, trackCap, trackPermits,
               files, maxChunks>>

taskVars == <<orphaned, multiArtist, pc, holds, attempts, failures, manifestFetches,
              encoderStarted, downloaded, chunksRead, written, log, finishedSent,
              existedAtCheck, lastErr>>

artVars == <<artPc, artAttempts, partialCovers>>

loopVars == <<sinceEdit, topElapsed, sinceRender, refreshCalls, refreshOutcome,
              refreshFailed>>

aggVars == <<chan, rxAlive, albums, pendingEdit, loopVars>>

pipeVars == <<beginVars, taskVars, artVars, aggVars>>

vars == <<mpdVars, pipeVars>>

----------------------------------------------------------------------------
(* Bounds of the model                                                      *)

MaxRepeat == 1        \* largest r attribute of an S element
MaxChunkCap == 2      \* largest chunk_concurrency tried
NumStreams == 2       \* concurrent segmented streams sharing the chunk semaphore
MaxTrackCap == 2      \* largest track_concurrency tried
MaxChunks == 2        \* chunks of the longest byte stream
MaxChunkLen == 1      \* bytes of the longest chunk
MaxChan == 2          \* messages the progress channel holds in the explored runs
Second == 2           \* clock ticks in the one-second render interval
MaxTextLen == 3       \* tokens of the longest decoded manifest text

\* pipeline.rs:130  ExponentialBackoff::from_millis(1000).map(jitter).take(5)
RetryTake == 5

----------------------------------------------------------------------------
(* Manifests                                                                *)

\* An XML attribute as str::parse sees it: absent, present and unparsable, or
\* present with a numeric value.
Absent == [k |-> "absent", v |-> 0]
Unparsable == [k |-> "bad", v |-> 0]
Val(n) == [k |-> "ok", v |-> n]

NoErr == "none"

\* An S element: its d and r attributes as written in the document.
GoodEntries == [d : {Val(10)}, r : {Absent} \cup {Val(n) : n \in -1 .. MaxRepeat}]
BadEntries == {[d |-> Absent, r |-> Val(0)], [d |-> Unparsable, r |-> Absent]}

\* SegmentTemplate's SegmentTimeline child: present or not, and its S children.
NoTimeline == [present |-> FALSE, entries |-> << >>]
Timeline(es) == [present |-> TRUE, entries |-> es]

GoodTimelines ==
    {NoTimeline, Timeline(<< >>)}
        \cup {Timeline(<<e>>) : e \in GoodEntries}
        \cup {Timeline(<<e1, e2>>) : e1 \in GoodEntries, e2 \in GoodEntries}

WellFormed(start, tl) ==
    [xml |-> TRUE, tpl |-> TRUE, init |-> TRUE, media |-> TRUE, urlOk |-> TRUE,
     start |-> start, timeline |-> tl]

\* Documents with one structural defect each.
DefectManifests ==
    LET base == WellFormed(Absent, Timeline(<<[d |-> Val(10), r |-> Val(1)]>>))
    IN  {[base EXCEPT !.xml = FALSE], [base EXCEPT !.tpl = FALSE],
         [base EXCEPT !.init = FALSE], [base EXCEPT !.media = FALSE],
         [base EXCEPT !.urlOk = FALSE]}
        \cup {[base EXCEPT !.timeline = Timeline(<<e>>)] : e \in BadEntries}
        \cup {[base EXCEPT !.timeline = Timeline(<<[d |-> Val(10), r |-> Val(0)], e>>)] :
                e \in BadEntries}

Manifests ==
    {WellFormed(s, tl) : s \in {Absent, Unparsable, Val(0), Val(5)}, tl \in GoodTimelines}
        \cup DefectManifests

\* The manifests used when several streams share the chunk semaphore.
SharedManifests ==
    {WellFormed(Val(1), Timeline(<<[d |-> Val(10), r |-> Val(r)]>>)) : r \in 0 .. 1}

----------------------------------------------------------------------------
(* download_mpd: parsing (lib.rs:94-134)                                    *)

\* Option::and_then(|s| s.parse().ok()).unwrap_or(dflt)
ParsedOr(a, dflt) == IF a.k = "ok" THEN a.v ELSE dflt

\* lib.rs:109-112  attribute("startNumber").and_then(parse.ok()).unwrap_or(1)
StartNumberOf(m) == ParsedOr(m.start, 1)

\* lib.rs:124  attribute("r").and_then(parse.ok()).unwrap_or(0)
RepeatOf(e) == ParsedOr(e.r, 0)

\* lib.rs:125  `r as usize`: a negative i64 wraps to 2^64 + r.  The inclusive
\* range 0..=(r as usize) then has more than 2^63 elements, more than a
\* Vec<u64> can ever hold: the push loop cannot run to its end.
FitsInMemory(r) == r >= 0

\* Mutant of PushRepeated: the exclusive range 0..r, one push too few.
PushRepeatedExclusive(counts, d, r) ==
    counts \o [i \in 1 .. r |-> d]

\* lib.rs:125-127  for _ in 0..=(r as usize) { segment_counts.push(d) }
PushRepeated(counts, d, r) ==
    counts \o [i \in 1 .. (r + 1) |-> d]

Exhausted == "exhausted"

\* lib.rs:119-128  the loop over the S children of the timeline; the result is
\* the Vec, an error kind, or Exhausted when a push loop cannot end.
RECURSIVE ExpandFrom(_, _)
ExpandFrom(es, counts) ==
    IF es = << >> THEN [kind |-> "ok", counts |-> counts]
    ELSE LET e == Head(es) IN
         IF e.d.k # "ok" THEN [kind |-> "SMissingD", counts |-> counts]
         ELSE IF ~FitsInMemory(RepeatOf(e)) THEN [kind |-> Exhausted, counts |-> counts]
         ELSE ExpandFrom(Tail(es), PushRepeated(counts, e.d.v, RepeatOf(e)))

\* lib.rs:114-131
ExpandTimeline(tl) ==
    IF tl.present
    THEN ExpandFrom(tl.entries, << >>)
    ELSE [kind |-> "ok", counts |-> <<0>>]

\* Mutant of ParseMpd: the initialization URL is parsed by the stream, at its
\* first poll, and not by download_mpd.
ParseMpdLazyUrl(m) ==
    IF ~m.xml THEN [kind |-> "XmlParse", counts |-> << >>]
    ELSE IF ~m.tpl THEN [kind |-> "MissingSegmentTemplate", counts |-> << >>]
    ELSE IF ~m.init THEN [kind |-> "MissingInitializationTemplate", counts |-> << >>]
    ELSE IF ~m.media THEN [kind |-> "MissingMedia", counts |-> << >>]
    ELSE ExpandTimeline(m.timeline)

\* lib.rs:94-134  everything download_mpd does before it returns the stream.
ParseMpd(m) ==
    IF ~m.xml THEN [kind |-> "XmlParse", counts |-> << >>]
    ELSE IF ~m.tpl THEN [kind |-> "MissingSegmentTemplate", counts |-> << >>]
    ELSE IF ~m.init THEN [kind |-> "MissingInitializationTemplate", counts |-> << >>]
    ELSE IF ~m.media THEN [kind |-> "MissingMedia", counts |-> << >>]
    ELSE LET x == ExpandTimeline(m.timeline) IN
         IF x.kind # "ok" THEN x
         ELSE IF ~m.urlOk THEN [kind |-> "UrlParse", counts |-> << >>]
         ELSE x

\* lib.rs:145  let number = start_number + idx as u64   (idx counts from 0)
SegmentNumber(start, idx) == start + idx

----------------------------------------------------------------------------
(* download_mpd: the stream (lib.rs:136-157)                                *)

InitItem == [kind |-> "init", n |-> 0]
MediaItem(n) == [kind |-> "media", n |-> n]
ErrItem == [kind |-> "err", n |-> 0]

\* A process abort (the allocation failure of the push loop) ends every task.
Alive == \A s \in streams : phase[s] # Exhausted

\* Mutant of CanAcquire: the request is sent without waiting for a permit.
CanAcquireAlways(permits) == TRUE

\* lib.rs:149  sem.acquire_owned().await: the task goes on only with a permit.
CanAcquire(permits) == permits > 0

\* Indices of the futures still in the FuturesOrdered queue.
Queued(s) == {i \in 1 .. Len(segs[s]) : segs[s][i].state # "yielded"}

Finished(s) == {i \in Queued(s) : segs[s][i].state \in {"ok", "err"}}

Min(S) == CHOOSE x \in S : \A y \in S : x <= y

\* Mutant of NextReady: a first-finished queue (FuturesUnordered).
NextReadyUnordered(s) == Finished(s)

\* lib.rs:154  futs.next(): FuturesOrdered hands out the oldest future of the
\* queue, and only once that one is ready.
NextReady(s) ==
    IF Queued(s) = {} THEN {} ELSE {Min(Queued(s))} \cap Finished(s)

\* The call download_mpd(manifest, chunk_semaphore).await up to its return.
DownloadMpd(s) ==
    /\ Alive
    /\ phase[s] = "new"
    /\ LET p == ParseMpd(manifest[s]) IN
         /\ phase' = [phase EXCEPT ![s] =
                        IF p.kind = "ok" THEN "ready"
                        ELSE IF p.kind = Exhausted THEN Exhausted ELSE "error"]
         /\ mpdErr' = [mpdErr EXCEPT ![s] =
                        IF p.kind \in {"ok", Exhausted} THEN NoErr ELSE p.kind]
         /\ segmentCounts' = [segmentCounts EXCEPT ![s] =
                        IF p.kind = "ok" THEN p.counts ELSE << >>]
         /\ startNumber' = [startNumber EXCEPT ![s] = StartNumberOf(manifest[s])]
    /\ UNCHANGED <<pipeVars, dlVars, non200>>
    /\ UNCHANGED <<streams, manifest, segs, emitted, overtook, chunkCap, chunkPermits>>

\* lib.rs:137  first poll of the stream: the initialization request is sent.
PollInit(s) ==
    /\ Alive
    /\ phase[s] = "ready"
    /\ phase' = [phase EXCEPT ![s] = "initFetch"]
    /\ UNCHANGED <<pipeVars, dlVars, non200>>
    /\ UNCHANGED <<streams, manifest, mpdErr, startNumber, segmentCounts, segs,
                   emitted, overtook, chunkCap, chunkPermits>>

\* lib.rs:137, 150  send().await?.bytes().await: the status of the response is
\* not looked at.
StatusSeen(s, i, status) ==
    non200' = IF status = 200 THEN non200 ELSE non200 \cup {<<s, i>>}

\* lib.rs:137-138  the body of the initialization response arrives and is
\* yielded.
InitReceived(s, status) ==
    /\ Alive
    /\ phase[s] = "initFetch"
    /\ phase' = [phase EXCEPT ![s] = "initYielded"]
    /\ emitted' = [emitted EXCEPT ![s] = Append(@, InitItem)]
    /\ StatusSeen(s, 0, status)
    /\ UNCHANGED <<pipeVars, dlVars>>
    /\ UNCHANGED <<streams, manifest, mpdErr, startNumber, segmentCounts, segs,
                   overtook, chunkCap, chunkPermits>>

InitOk(s) == InitReceived(s, 200)

\* The server answers the initialization request with 404 and a body.
InitNotOk(s) == InitReceived(s, 404)

\* lib.rs:137  `?` on the initialization request: the stream yields the error
\* and ends.
InitFail(s) ==
    /\ Alive
    /\ phase[s] = "initFetch"
    /\ phase' = [phase EXCEPT ![s] = "initFailed"]
    /\ emitted' = [emitted EXCEPT ![s] = Append(@, ErrItem)]
    /\ UNCHANGED <<pipeVars, dlVars, non200>>
    /\ UNCHANGED <<streams, manifest, mpdErr, startNumber, segmentCounts, segs,
                   overtook, chunkCap, chunkPermits>>

\* Mutant of Dispatch: the media tasks are spawned while the initialization
\* request is still in flight.
DispatchEarly(s) ==
    /\ Alive
    /\ phase[s] = "initFetch"
    /\ segs' = [segs EXCEPT ![s] =
                  [i \in 1 .. Len(segmentCounts[s]) |->
                     [number |-> SegmentNumber(startNumber[s], i - 1),
                      state |-> "waiting"]]]
    /\ phase' = [phase EXCEPT ![s] =
                  IF Len(segmentCounts[s]) = 0 THEN "done" ELSE "collect"]
    /\ UNCHANGED <<pipeVars, dlVars, non200>>
    /\ UNCHANGED <<streams, manifest, mpdErr, startNumber, segmentCounts, emitted,
                   overtook, chunkCap, chunkPermits>>

\* lib.rs:140-152  the poll after the initialization chunk: one task is
\* spawned per element of segment_counts, all in the same poll.
Dispatch(s) ==
    /\ Alive
    /\ phase[s] = "initYielded"
    /\ segs' = [segs EXCEPT ![s] =
                  [i \in 1 .. Len(segmentCounts[s]) |->
                     [number |-> SegmentNumber(startNumber[s], i - 1),
                      state |-> "waiting"]]]
    /\ phase' = [phase EXCEPT ![s] =
                  IF Len(segmentCounts[s]) = 0 THEN "done" ELSE "collect"]
    /\ UNCHANGED <<pipeVars, dlVars, non200>>
    /\ UNCHANGED <<streams, manifest, mpdErr, startNumber, segmentCounts, emitted,
                   overtook, chunkCap, chunkPermits>>

\* lib.rs:149-150  a spawned task obtains its permit and sends its request.
SegAcquire(s, i) ==
    /\ Alive
    /\ i \in 1 .. Len(segs[s])
    /\ segs[s][i].state = "waiting"
    /\ CanAcquire(chunkPermits)
    /\ chunkPermits' = chunkPermits - 1
    /\ segs' = [segs EXCEPT ![s][i].state = "fetching"]
    /\ UNCHANGED <<pipeVars, dlVars, non200>>
    /\ UNCHANGED <<streams, manifest, phase, mpdErr, startNumber, segmentCounts,
                   emitted, overtook, chunkCap>>

\* lib.rs:150-151  the request ends (Ok bytes or Err) and the task with it:
\* _permit is dropped.
SegEnd(s, i, outcome, status) ==
    /\ Alive
    /\ i \in 1 .. Len(segs[s])
    /\ segs[s][i].state = "fetching"
    /\ chunkPermits' = chunkPermits + 1
    /\ segs' = [segs EXCEPT ![s][i].state = outcome]
    /\ overtook' = [overtook EXCEPT ![s] =
                      @ \/ \E j \in 1 .. (i - 1) : segs[s][j].state \in {"waiting", "fetching"}]
    /\ StatusSeen(s, i, status)
    /\ UNCHANGED <<pipeVars, dlVars>>
    /\ UNCHANGED <<streams, manifest, phase, mpdErr, startNumber, segmentCounts,
                   emitted, chunkCap>>

SegOk(s, i) == SegEnd(s, i, "ok", 200)

SegFail(s, i) == SegEnd(s, i, "err", 200)

\* The server answers a media request with 404 and a body.
SegNotOk(s, i) == SegEnd(s, i, "ok", 404)

\* Mutant of Emit: after an Err item the stream goes on with the next future.
EmitPastError(s) ==
    /\ Alive
    /\ phase[s] = "collect"
    /\ \E i \in NextReady(s) :
         /\ emitted' = [emitted EXCEPT ![s] =
                          Append(@, IF segs[s][i].state = "ok"
                                    THEN MediaItem(segs[s][i].number) ELSE ErrItem)]
         /\ segs' = [segs EXCEPT ![s][i].state = "yielded"]
         /\ phase' = [phase EXCEPT ![s] = IF Queued(s) = {i} THEN "done" ELSE "collect"]
    /\ UNCHANGED <<pipeVars, dlVars, non200>>
    /\ UNCHANGED <<streams, manifest, mpdErr, startNumber, segmentCounts, overtook,
                   chunkCap, chunkPermits>>

\* lib.rs:154-156  while let Some(res) = futs.next().await { yield res.unwrap()?; }
\* An Err item ends the stream; after the last future the stream ends.
Emit(s) ==
    /\ Alive
    /\ phase[s] = "collect"
    /\ \E i \in NextReady(s) :
         /\ emitted' = [emitted EXCEPT ![s] =
                          Append(@, IF segs[s][i].state = "ok"
                                    THEN MediaItem(segs[s][i].number) ELSE ErrItem)]
         /\ segs' = [segs EXCEPT ![s][i].state = "yielded"]
         /\ phase' = [phase EXCEPT ![s] =
                          IF segs[s][i].state = "err" THEN "failed"
                          ELSE IF Queued(s) = {i} THEN "done" ELSE "collect"]
    /\ UNCHANGED <<pipeVars, dlVars, non200>>
    /\ UNCHANGED <<streams, manifest, mpdErr, startNumber, segmentCounts, overtook,
                   chunkCap, chunkPermits>>

----------------------------------------------------------------------------
(* download_track (lib.rs:56-87) and Track::decode_manifest (track.rs)      *)

\* A decoded manifest text is a sequence of tokens: the root marker of a
\* segmented manifest, a URL, or anything else.
MpdMarker == "<MPD"

Urls == {"url1", "url2"}

Tokens == {MpdMarker, "junk"} \cup Urls

Texts == UNION {[1 .. n -> Tokens] : n \in 0 .. MaxTextLen}

\* Track.manifest: the base64 encoding of a text, or a string that is not
\* base64.
Encoded(text) == [valid |-> TRUE, text |-> text]
NotBase64 == [valid |-> FALSE, text |-> << >>]

Payloads == {Encoded(text) : text \in Texts} \cup {NotBase64}

\* track.rs:15-18  BASE64_STANDARD.decode(&self.manifest)? and then
\* from_utf8_lossy, which cannot fail.
DecodeManifest(p) ==
    IF p.valid THEN [k |-> "ok", v |-> p.text] ELSE [k |-> "err", v |-> << >>]

\* lib.rs:67  manifest.contains("<MPD")
ContainsMarker(text) == \E i \in 1 .. Len(text) : text[i] = MpdMarker

\* lib.rs:71  serde_json::from_str::<UrlHolder>(&manifest): the text is a JSON
\* object with a list of strings (a marker inside a string is still a string);
\* anything else in it makes the parse fail.
ParseUrlHolder(text) ==
    IF \A i \in 1 .. Len(text) : text[i] \in Urls \cup {MpdMarker}
    THEN [k |-> "ok", v |-> text] ELSE [k |-> "err", v |-> << >>]

\* Mutant of FirstUrl: the last URL of the list is taken.
LastUrl(urls) == urls[Len(urls)]

\* lib.rs:72  urls.urls.into_iter().next()
FirstUrl(urls) == urls[1]

NoUrl == "none"

NotCalled == [kind |-> "none", url |-> NoUrl, requests |-> 0]

Returned(kind) == [kind |-> kind, url |-> NoUrl, requests |-> 0]

\* lib.rs:61-79  download_track up to its first await or return.
Classify(p) ==
    LET d == DecodeManifest(p) IN
    IF d.k = "err" THEN Returned("Base64Decode")
    ELSE IF ContainsMarker(d.v) THEN Returned("mpd")
    ELSE LET u == ParseUrlHolder(d.v) IN
         IF u.k = "ok" /\ Len(u.v) >= 1
         THEN [kind |-> "request", url |-> FirstUrl(u.v), requests |-> 1]
         ELSE Returned("ManifestDecode")

DlFrame ==
    /\ UNCHANGED <<payload, non200>>
    /\ UNCHANGED <<streams, manifest, phase, mpdErr, startNumber, segmentCounts, segs,
                   emitted, overtook, chunkCap, chunkPermits>>
    /\ UNCHANGED pipeVars

\* lib.rs:56-79  download_track is called with the track.
DownloadTrack ==
    /\ payload \in Payloads
    /\ dlResult.kind = "none"
    /\ dlResult' = Classify(payload)
    /\ DlFrame

\* lib.rs:79-86  the response has status 200: its byte stream is returned.
ResponseOk ==
    /\ dlResult.kind = "request"
    /\ dlResult' = [dlResult EXCEPT !.kind = "regular"]
    /\ DlFrame

\* lib.rs:80-82  any other status: MonochromeError::Non200.
ResponseNotOk ==
    /\ dlResult.kind = "request"
    /\ dlResult' = [dlResult EXCEPT !.kind = "Non200"]
    /\ DlFrame

\* lib.rs:79  send().await? fails: MonochromeError::Request.
ResponseErr ==
    /\ dlResult.kind = "request"
    /\ dlResult' = [dlResult EXCEPT !.kind = "Request"]
    /\ DlFrame

----------------------------------------------------------------------------
(* Pipeline::begin (pipeline.rs:73-188)                                     *)

Tasks == DOMAIN pc

\* pipeline.rs:101-108  the output path of a track: the album folder and the
\* track's numbers and title.
PathOf(t) == <<albumOf[t[1]], t[2]>>

\* pipeline.rs:162  album_folder.join("cover.jpg")
CoverOf(r) == <<albumOf[r], 0>>

\* ffmpeg.rs:43-47  Metadata::artists: the names of the track's artists.  A
\* track is modelled with one artist or with two.
ArtistsOf(t) == IF multiArtist[t] THEN <<1, 2>> ELSE <<1>>

\* One argument of a command line: an option or key, the artist it names
\* (0: none) and the path it is (empty: none).
Arg(o) == [opt |-> o, artist |-> 0, path |-> {}]
ArtistArg(key, a) == [opt |-> key, artist |-> a, path |-> {}]
PathArg(p) == [opt |-> "", artist |-> 0, path |-> {p}]

\* ffmpeg.rs:76-127  the arguments of ffmpeg: the artist is embedded only if
\* there is exactly one; the output path comes last.
EncoderArgs(artists, output) ==
    <<Arg("-i"), Arg("pipe:0"), Arg("-vn"), Arg("-c:a"), Arg("libopus"), Arg("-b:a"),
      Arg("192k"), Arg("-vbr"), Arg("on"), Arg("-compression_level"), Arg("10"),
      Arg("-nostdin"), Arg("-y")>>
        \o <<Arg("-metadata"), Arg("album="), Arg("-metadata"), Arg("album_artist=")>>
        \o (IF Len(artists) = 1
            THEN <<Arg("-metadata"), ArtistArg("artist=", artists[1])>> ELSE << >>)
        \o <<Arg("-metadata"), Arg("title="), Arg("-metadata"), Arg("track="),
             Arg("-metadata"), Arg("disc="), Arg("-metadata"), Arg("year=")>>
        \o <<PathArg(output)>>

RECURSIVE ArtistFlags(_)
\* ffmpeg.rs:213-216  for artist in self.artists { "-a", "ARTISTS={artist}" }
ArtistFlags(artists) ==
    IF artists = << >> THEN << >>
    ELSE <<Arg("-a"), ArtistArg("ARTISTS=", Head(artists))>> \o ArtistFlags(Tail(artists))

\* ffmpeg.rs:211-218  the arguments of opustags: in place, the artists, the
\* file ffmpeg wrote.
TagArgs(artists, output) == <<Arg("-i")>> \o ArtistFlags(artists) \o <<PathArg(output)>>

\* Mutant of NeedsTagPass: opustags is run for every track that has an artist.
NeedsTagPassAny(artists) == Len(artists) >= 1

\* ffmpeg.rs:210  if self.artists.len() > 1
NeedsTagPass(artists) == Len(artists) > 1

Downloading(b) == [state |-> "Downloading", bytes |-> b]
Transcoding == [state |-> "Transcoding", bytes |-> 0]
FinishedState == [state |-> "Finished", bytes |-> 0]
NoState == [state |-> "None", bytes |-> 0]

ProgressMsg(t, st) ==
    [type |-> "Progress", album |-> albumOf[t[1]], track |-> t[2], state |-> st, n |-> 0]

\* ffmpeg.rs:161-166  tx.send(ProgressUpdate {..}).ok(): the update is queued
\* while the receiver exists and is discarded otherwise.
Send(t, st) ==
    /\ rxAlive => Len(chan) < MaxChan
    /\ chan' = IF rxAlive THEN Append(chan, ProgressMsg(t, st)) ELSE chan
    /\ log' = [log EXCEPT ![t] = Append(@, st)]

NoSend == UNCHANGED <<chan, log>>

\* Mutant of ShouldSkip: the existence check is dropped.
NeverSkip(exists) == FALSE

\* pipeline.rs:119-122  if tokio::fs::metadata(&path).await.is_ok() { continue; }
ShouldSkip(exists) == exists

\* Mutant of TrackCanAcquire: begin spawns the task at once and leaves the
\* wait for a permit to it.
TrackCanAcquireInTask(permits) == TRUE

\* pipeline.rs:127  semaphore.clone().acquire_owned().await
TrackCanAcquire(permits) == permits > 0

\* Mutant of ReleasesPermit: the permit is scoped to one attempt.
ReleasesPermitPerAttempt(newPc) == newPc \in {"ok", "failed", "retry"}

\* Mutant of ReleasesPermit: a panic leaks the permit.
ReleasesPermitUnlessPanic(newPc) == newPc \in {"ok", "failed"}

\* pipeline.rs:131  let _permit = permit: the permit lives as long as the
\* spawned task's future and is dropped when the future completes or is
\* unwound by a panic.
ReleasesPermit(newPc) == newPc \in {"ok", "failed", "panicked"}

\* Mutant of RetryOrGiveUp: the strategy yields one delay more than take(5).
RetryOrGiveUpOneMore(made) == IF made <= RetryTake + 1 THEN "retry" ELSE "failed"

\* pipeline.rs:130-133  Retry::spawn: after a failed attempt the strategy is
\* asked for the next delay; take(5) yields five, then the error is returned.
RetryOrGiveUp(made) == IF made <= RetryTake THEN "retry" ELSE "failed"

\* Mutant of AttemptEntry: a retry reuses the manifest of the first attempt.
AttemptEntryReuse(made) == IF made = 0 THEN "track" ELSE "stream"

\* pipeline.rs:133-135  the retried closure starts at client.track(track.id).
AttemptEntry(made) == "track"

\* Mutant of PcAfter: an exhausted track aborts the tasks still running.
PcAfterAbortAll(t, newPc) ==
    [u \in DOMAIN pc |->
        IF u = t THEN newPc
        ELSE IF newPc = "failed" /\ pc[u] \notin {"pending", "skipped", "ok", "failed"}
        THEN "failed" ELSE pc[u]]

\* pipeline.rs:129-150  each handle is the JoinHandle of its own spawned task.
PcAfter(t, newPc) == [pc EXCEPT ![t] = newPc]

\* The task moves to newPc; when that ends the task, the permit is dropped.
MoveTo(t, newPc) ==
    /\ pc' = PcAfter(t, newPc)
    /\ IF ReleasesPermit(newPc) /\ holds[t]
       THEN /\ trackPermits' = trackPermits + 1
            /\ holds' = [holds EXCEPT ![t] = FALSE]
       ELSE UNCHANGED <<trackPermits, holds>>

\* An attempt returns Err: `?` at pipeline.rs:135, 138, 145 or 146.  The
\* Transcoder and its locals are dropped with the attempt.
AttemptFails(t) ==
    /\ failures' = [failures EXCEPT ![t] = @ + 1]
    /\ MoveTo(t, RetryOrGiveUp(attempts[t]))
    /\ log' = [log EXCEPT ![t] = << >>]
    /\ downloaded' = [downloaded EXCEPT ![t] = 0]
    /\ chunksRead' = [chunksRead EXCEPT ![t] = 0]
    /\ written' = [written EXCEPT ![t] = 0]

\* pipeline.rs:98-122  the loop reaches the next track and checks its path.
BeginCheck(r) ==
    /\ cursor[r] \in 1 .. ntracks[r]
    /\ ~checked[r]
    /\ LET t == <<r, cursor[r]>>
           ex == PathOf(t) \in files
       IN  /\ existedAtCheck' = [existedAtCheck EXCEPT ![t] = IF ex THEN "yes" ELSE "no"]
           /\ IF ShouldSkip(ex)
              THEN /\ pc' = [pc EXCEPT ![t] = "skipped"]
                   /\ cursor' = [cursor EXCEPT ![r] = @ + 1]
                   /\ UNCHANGED checked
              ELSE /\ checked' = [checked EXCEPT ![r] = TRUE]
                   /\ UNCHANGED <<pc, cursor>>
    /\ UNCHANGED <<runs, albumOf, ntracks, doneSent, trackCap, trackPermits, files, maxChunks>>
    /\ UNCHANGED <<orphaned, multiArtist, lastErr, holds, attempts, failures, manifestFetches,
                   encoderStarted, downloaded, chunksRead, written, log, finishedSent>>
    /\ UNCHANGED <<artVars, aggVars, mpdVars>>

\* pipeline.rs:127-152  the permit is acquired, the task spawned, the handle pushed.
BeginAdmit(r) ==
    /\ cursor[r] \in 1 .. ntracks[r]
    /\ checked[r]
    /\ TrackCanAcquire(trackPermits)
    /\ LET t == <<r, cursor[r]>> IN
           /\ trackPermits' = trackPermits - 1
           /\ holds' = [holds EXCEPT ![t] = TRUE]
           /\ pc' = [pc EXCEPT ![t] = "spawned"]
    /\ cursor' = [cursor EXCEPT ![r] = @ + 1]
    /\ checked' = [checked EXCEPT ![r] = FALSE]
    /\ UNCHANGED <<runs, albumOf, ntracks, doneSent, trackCap, files, maxChunks>>
    /\ UNCHANGED <<orphaned, multiArtist, lastErr, attempts, failures, manifestFetches,
                   encoderStarted, downloaded, chunksRead, written, log, finishedSent,
                   existedAtCheck>>
    /\ UNCHANGED <<artVars, aggVars, mpdVars>>

\* pipeline.rs:155-187  after the loop the album-art task is spawned and begin
\* returns the handles.
BeginArt(r) ==
    /\ cursor[r] = ntracks[r] + 1
    /\ cursor' = [cursor EXCEPT ![r] = @ + 1]
    /\ artPc' = [artPc EXCEPT ![r] = "spawned"]
    /\ UNCHANGED <<runs, albumOf, ntracks, doneSent, checked, trackCap, trackPermits, files, maxChunks>>
    /\ UNCHANGED <<taskVars, artAttempts, partialCovers, aggVars, mpdVars>>


----------------------------------------------------------------------------
(* The spawned track task (pipeline.rs:129-150) and Transcoder::run         *)
(* (ffmpeg.rs:147-235)                                                      *)

\* What a step of a track task leaves alone outside the task's own fields.
BeginFrame == UNCHANGED <<runs, albumOf, ntracks, doneSent, cursor, checked, trackCap, maxChunks>>

OtherFrame == UNCHANGED <<artVars, rxAlive, albums, pendingEdit, loopVars, mpdVars>>

\* pipeline.rs:24-43, ffmpeg.rs:17-27  the error an attempt returns: the
\* variant of PipelineError (with the inner variant), next to what went wrong.
Failure(cause, kind) == [cause |-> cause, kind |-> kind]

NoFailure == Failure("none", "none")

\* lib.rs:79, 283  reqwest's error, or a non-200 status, from a request of the
\* client: MonochromeError, wrapped by PipelineError::Monochrome.
RequestError == Failure("fetch", "Monochrome::Request")

\* lib.rs:61-77, error.rs:25-61  the manifest cannot be decoded or lacks a
\* part: MonochromeError::{Base64Decode, ManifestDecode, Manifest}.
ManifestError == Failure("manifest", "Monochrome::Manifest")

\* pipeline.rs:139-145  Transcoder::new(..)? : std::io::Error, PipelineError::Io.
SpawnError == Failure("process", "Io")

\* ffmpeg.rs:173  chunk.map_err(|_| TranscodeError::StdinOpen)? : the stream's
\* reqwest::Error is thrown away and StdinOpen returned in its place.
StreamItemError == Failure("fetch", "Transcode::StdinOpen")

\* ffmpeg.rs:174  stdin.write_all(&chunk).await? : TranscodeError::StdinWrite.
StdinWriteError == Failure("process", "Transcode::StdinWrite")

\* ffmpeg.rs:204-207, 221-224  TranscodeError::NonZeroExit.
NonZeroExit == Failure("exit", "Transcode::NonZeroExit")

\* An attempt fails before or without sending anything.  alive: the ffmpeg
\* process of the attempt is still running when the Transcoder that owns the
\* Child is dropped (ffmpeg.rs:129-133: no kill_on_drop, and nothing waits).
FailStepLeaving(t, err, alive) ==
    /\ AttemptFails(t)
    /\ lastErr' = [lastErr EXCEPT ![t] = err]
    /\ orphaned' = IF alive THEN orphaned \cup {t} ELSE orphaned
    /\ UNCHANGED chan
    /\ UNCHANGED <<multiArtist, attempts, manifestFetches, encoderStarted,
                   finishedSent, existedAtCheck>>
    /\ UNCHANGED files
    /\ BeginFrame /\ OtherFrame

\* An attempt fails and no ffmpeg process of it is running any more.
FailStep(t, err) == FailStepLeaving(t, err, FALSE)

\* An attempt panics (for instance `res.unwrap()` at lib.rs:155 on the
\* JoinError of a segment task): the task's future is unwound, its locals are
\* dropped and the JoinHandle resolves to a JoinError.  There is no retry.
TaskPanic(t) ==
    /\ pc[t] \in {"track", "stream", "read", "wait", "tags"}
    /\ MoveTo(t, "panicked")
    /\ UNCHANGED <<orphaned, multiArtist, lastErr, attempts, failures, manifestFetches, encoderStarted,
                   downloaded, chunksRead, written, log, finishedSent, existedAtCheck,
                   chan>>
    /\ UNCHANGED files
    /\ BeginFrame /\ OtherFrame

\* pipeline.rs:133-135  Retry::spawn calls the closure: first of all the
\* track manifest is requested.
StartAttempt(t) ==
    /\ pc[t] \in {"spawned", "retry"}
    /\ LET entry == AttemptEntry(attempts[t]) IN
         /\ pc' = [pc EXCEPT ![t] = entry]
         /\ manifestFetches' = [manifestFetches EXCEPT ![t] =
                                  IF entry = "track" THEN @ + 1 ELSE @]
    /\ attempts' = [attempts EXCEPT ![t] = @ + 1]
    /\ lastErr' = [lastErr EXCEPT ![t] = NoFailure]
    /\ UNCHANGED <<orphaned, multiArtist, holds, failures, encoderStarted, downloaded, chunksRead,
                   written, log, finishedSent, existedAtCheck, chan>>
    /\ UNCHANGED <<trackPermits, files>>
    /\ BeginFrame /\ OtherFrame

\* pipeline.rs:135  client.track(track.id).await returned Ok.
TrackOk(t) ==
    /\ pc[t] = "track"
    /\ pc' = [pc EXCEPT ![t] = "stream"]
    /\ NoSend
    /\ UNCHANGED <<orphaned, multiArtist, lastErr, holds, attempts, failures, manifestFetches,
                   encoderStarted, downloaded, chunksRead, written, finishedSent,
                   existedAtCheck>>
    /\ UNCHANGED <<trackPermits, files>>
    /\ BeginFrame /\ OtherFrame

\* pipeline.rs:135  client.track(track.id).await? : request error or non-200.
TrackFail(t) == pc[t] = "track" /\ FailStep(t, RequestError)

\* pipeline.rs:136-146, ffmpeg.rs:131-166  download_track returned the stream,
\* Transcoder::new spawned ffmpeg and run sent Downloading(0).
StreamOk(t) ==
    /\ pc[t] = "stream"
    /\ pc' = [pc EXCEPT ![t] = "read"]
    /\ encoderStarted' = [encoderStarted EXCEPT ![t] = TRUE]
    /\ downloaded' = [downloaded EXCEPT ![t] = 0]
    /\ Send(t, Downloading(0))
    /\ UNCHANGED <<orphaned, multiArtist, lastErr, holds, attempts, failures, manifestFetches,
                   chunksRead, written, finishedSent, existedAtCheck>>
    /\ UNCHANGED <<trackPermits, files>>
    /\ BeginFrame /\ OtherFrame

\* pipeline.rs:136-138  download_track(..).await? : decode, manifest or request error.
StreamFail(t) == pc[t] = "stream" /\ \E e \in {RequestError, ManifestError} : FailStep(t, e)

\* pipeline.rs:139-145, ffmpeg.rs:131-135  Transcoder::new(..)? : ffmpeg cannot be spawned.
SpawnFail(t) == pc[t] = "stream" /\ FailStep(t, SpawnError)

\* Mutant of NextDownloaded: the counter is overwritten by the chunk's length.
NextDownloadedLast(sofar, len) == len

\* ffmpeg.rs:175  downloaded += chunk.len() as u64
NextDownloaded(sofar, len) == sofar + len

\* ffmpeg.rs:172-182  a chunk arrives, is written to stdin and reported.
ReadChunk(t, len) ==
    /\ pc[t] = "read"
    /\ chunksRead[t] < maxChunks
    /\ chunksRead' = [chunksRead EXCEPT ![t] = @ + 1]
    /\ written' = [written EXCEPT ![t] = @ + len]
    /\ downloaded' = [downloaded EXCEPT ![t] = NextDownloaded(@, len)]
    /\ Send(t, Downloading(NextDownloaded(downloaded[t], len)))
    /\ UNCHANGED <<orphaned, multiArtist, lastErr, pc, holds, attempts, failures, manifestFetches,
                   encoderStarted, finishedSent, existedAtCheck>>
    /\ UNCHANGED <<trackPermits, files>>
    /\ BeginFrame /\ OtherFrame

\* ffmpeg.rs:173  the stream yields Err: chunk.map_err(|_| StdinOpen)?
ReadErr(t) == pc[t] = "read" /\ FailStep(t, StreamItemError)

\* ffmpeg.rs:173  the stream yields Err while ffmpeg is still encoding what it
\* was given: run returns, stdin is closed by the drop, the process lives on.
ReadErrAlive(t) == pc[t] = "read" /\ FailStepLeaving(t, StreamItemError, TRUE)

\* The ffmpeg process of a failed attempt reaches the end of its input,
\* finishes its output and exits.
OrphanExits(t) ==
    /\ t \in orphaned
    /\ orphaned' = orphaned \ {t}
    /\ UNCHANGED <<multiArtist, pc, holds, attempts, failures, manifestFetches,
                   encoderStarted, downloaded, chunksRead, written, log, finishedSent,
                   existedAtCheck, lastErr>>
    /\ UNCHANGED <<beginVars, artVars, aggVars, mpdVars>>

\* ffmpeg.rs:174  stdin.write_all(&chunk).await? : the encoder closed its input.
WriteFail(t) == pc[t] = "read" /\ chunksRead[t] < maxChunks /\ FailStep(t, StdinWriteError)

\* ffmpeg.rs:172, 190-200  the stream ends: flush, Transcoding, shutdown, drop.
ReadEnd(t) ==
    /\ pc[t] = "read"
    /\ pc' = [pc EXCEPT ![t] = "wait"]
    /\ Send(t, Transcoding)
    /\ UNCHANGED <<orphaned, multiArtist, lastErr, holds, attempts, failures, manifestFetches,
                   encoderStarted, downloaded, chunksRead, written, finishedSent,
                   existedAtCheck>>
    /\ UNCHANGED <<trackPermits, files>>
    /\ BeginFrame /\ OtherFrame

\* ffmpeg.rs:227-234  Finished is sent and run returns Ok: the attempt, the
\* retry loop and the task end.
FinishStep(t) ==
    /\ Send(t, FinishedState)
    /\ finishedSent' = [finishedSent EXCEPT ![t] = @ + 1]
    /\ MoveTo(t, "ok")
    /\ UNCHANGED <<orphaned, multiArtist, lastErr, attempts, failures, manifestFetches, encoderStarted,
                   downloaded, chunksRead, written, existedAtCheck>>
    /\ BeginFrame /\ OtherFrame

\* Mutant of WaitOk: Finished is sent without running the tag rewrite.
WaitOkSkipsTags(t) ==
    /\ pc[t] = "wait"
    /\ files' = files \cup {PathOf(t)}
    /\ FinishStep(t)

\* ffmpeg.rs:203-210  ffmpeg exits with status zero, its output file written.
WaitOk(t) ==
    /\ pc[t] = "wait"
    /\ files' = files \cup {PathOf(t)}
    /\ IF NeedsTagPass(ArtistsOf(t))
       THEN /\ pc' = [pc EXCEPT ![t] = "tags"]
            /\ NoSend
            /\ UNCHANGED <<orphaned, multiArtist, lastErr, holds, attempts, failures, manifestFetches,
                           encoderStarted, downloaded, chunksRead, written,
                           finishedSent, existedAtCheck, trackPermits>>
            /\ BeginFrame /\ OtherFrame
       ELSE FinishStep(t)

\* ffmpeg.rs:88, 129-135  ffmpeg was started with -y and the final path as
\* its output: at some point while it runs it creates (or truncates) that file.
EncoderCreatesFile(t) ==
    /\ pc[t] \in {"read", "wait"}
    /\ PathOf(t) \notin files
    /\ files' = files \cup {PathOf(t)}
    /\ UNCHANGED <<runs, albumOf, ntracks, doneSent, cursor, checked, trackCap, trackPermits, maxChunks>>
    /\ UNCHANGED <<taskVars, artVars, aggVars, mpdVars>>

\* ffmpeg.rs:203-207  ffmpeg exits with a non-zero status.
WaitFail(t) == pc[t] = "wait" /\ FailStep(t, NonZeroExit)

\* ffmpeg.rs:210-234  opustags exits with status zero.
TagsOk(t) == pc[t] = "tags" /\ UNCHANGED files /\ FinishStep(t)

\* ffmpeg.rs:220-224  opustags cannot be run or exits with a non-zero status.
TagsFail(t) == pc[t] = "tags" /\ FailStep(t, NonZeroExit)

----------------------------------------------------------------------------
(* The album-art task (pipeline.rs:155-185)                                 *)

ArtFrame ==
    /\ UNCHANGED <<runs, albumOf, ntracks, doneSent, cursor, checked, trackCap, trackPermits, maxChunks>>
    /\ UNCHANGED <<taskVars, aggVars, mpdVars>>

\* pipeline.rs:160-161  the same retry strategy as a track task.
ArtFails(r) ==
    /\ artPc' = [artPc EXCEPT ![r] = RetryOrGiveUp(artAttempts[r])]
    /\ UNCHANGED <<artAttempts, files, partialCovers>>
    /\ ArtFrame

\* pipeline.rs:161-169  an attempt starts: an existing cover ends the task
\* with Ok, otherwise the album is requested.
ArtStart(r) ==
    /\ artPc[r] \in {"spawned", "retry"}
    /\ artAttempts' = [artAttempts EXCEPT ![r] = @ + 1]
    /\ artPc' = [artPc EXCEPT ![r] = IF CoverOf(r) \in files THEN "ok" ELSE "album"]
    /\ UNCHANGED <<files, partialCovers>>
    /\ ArtFrame

\* pipeline.rs:169-170  client.album(..) returned, the art is requested.
ArtAlbumOk(r) ==
    /\ artPc[r] = "album"
    /\ artPc' = [artPc EXCEPT ![r] = "art"]
    /\ UNCHANGED <<artAttempts, files, partialCovers>>
    /\ ArtFrame

\* pipeline.rs:169  client.album(self.album.id).await?
ArtAlbumFail(r) == artPc[r] = "album" /\ ArtFails(r)

\* pipeline.rs:170-171  the art response arrived with status 200 and
\* File::create made the cover file.
ArtFetchOk(r) ==
    /\ artPc[r] = "art"
    /\ artPc' = [artPc EXCEPT ![r] = "write"]
    /\ files' = files \cup {CoverOf(r)}
    /\ partialCovers' = partialCovers \cup {CoverOf(r)}
    /\ UNCHANGED artAttempts
    /\ ArtFrame

\* pipeline.rs:170-171  client.album_art(&album).await? or File::create(..)?
ArtFetchFail(r) == artPc[r] = "art" /\ ArtFails(r)

\* pipeline.rs:172-179  the body stream ends, every chunk written.
ArtWriteEnd(r) ==
    /\ artPc[r] = "write"
    /\ artPc' = [artPc EXCEPT ![r] = "ok"]
    /\ partialCovers' = partialCovers \ {CoverOf(r)}
    /\ UNCHANGED <<artAttempts, files>>
    /\ ArtFrame

\* pipeline.rs:173-174  a chunk of the body fails, or its write fails.
ArtWriteFail(r) == artPc[r] = "write" /\ ArtFails(r)

----------------------------------------------------------------------------
(* The progress channel's consumer, ProgressTask::run (progress.rs:75-166)  *)

DiscoverMsg(a, n) ==
    [type |-> "Discover", album |-> a, track |-> 0, state |-> NoState, n |-> n]

\* The handler of the album selection sends DiscoverAlbum and calls
\* Pipeline::begin.
RunStart(r) ==
    /\ cursor[r] = 0
    /\ rxAlive => Len(chan) < MaxChan
    /\ cursor' = [cursor EXCEPT ![r] = 1]
    /\ chan' = IF rxAlive THEN Append(chan, DiscoverMsg(albumOf[r], ntracks[r])) ELSE chan
    /\ UNCHANGED <<runs, albumOf, ntracks, doneSent, checked, trackCap, trackPermits, files, maxChunks>>
    /\ UNCHANGED <<taskVars, artVars, rxAlive, albums, pendingEdit, loopVars, mpdVars>>

DoneMsg(a) ==
    [type |-> "Done", album |-> a, track |-> 0, state |-> NoState, n |-> 0]

\* What the k-th handle of run r has resolved to: the handles of the admitted
\* tracks in album order, then the handle of the album-art task.  A skipped
\* track has no handle.
HandleState(r, k) ==
    LET p == IF k <= ntracks[r] THEN pc[<<r, k>>] ELSE artPc[r] IN
    IF p \in {"ok", "skipped"} THEN "ok"
    ELSE IF p \in {"failed", "panicked"} THEN "err"
    ELSE "running"

HandleIds(r) == 1 .. (ntracks[r] + 1)

HandlerFrame ==
    /\ UNCHANGED <<runs, albumOf, ntracks, checked, trackCap, trackPermits, files, maxChunks>>
    /\ UNCHANGED <<taskVars, artVars, rxAlive, albums, pendingEdit, loopVars, mpdVars>>

\* interaction.rs:196-198  for handle in handles { handle.await??; } comes to
\* a handle that resolved to an error: the handler returns that error.
HandlerError(r) ==
    /\ cursor[r] = ntracks[r] + 2
    /\ \E k \in HandleIds(r) :
          /\ HandleState(r, k) = "err"
          /\ \A j \in 1 .. (k - 1) : HandleState(r, j) = "ok"
    /\ cursor' = [cursor EXCEPT ![r] = @ + 1]
    /\ UNCHANGED <<chan, doneSent>>
    /\ HandlerFrame

\* Every handle has resolved to Ok: the handler sends Done for its album and
\* returns.
HandlerDone(r) ==
    /\ cursor[r] = ntracks[r] + 2
    /\ \A k \in HandleIds(r) : HandleState(r, k) = "ok"
    /\ rxAlive => Len(chan) < MaxChan
    /\ cursor' = [cursor EXCEPT ![r] = @ + 1]
    /\ chan' = IF rxAlive THEN Append(chan, DoneMsg(albumOf[r])) ELSE chan
    /\ doneSent' = [doneSent EXCEPT ![r] = @ + 1]
    /\ HandlerFrame

\* Mutant of AggApply: a Transcoding update is not stored.
AggApplyDownloadsOnly(tp, st) ==
    IF st.state = "Transcoding" THEN tp
    ELSE [state |-> st, last |-> IF st.state = "Downloading" THEN st.bytes ELSE tp.last]

\* progress.rs:135-140  last_known_bytes follows Downloading, state is replaced.
AggApply(tp, st) ==
    [state |-> st, last |-> IF st.state = "Downloading" THEN st.bytes ELSE tp.last]

\* progress.rs:100-126  DiscoverAlbum: every track of the album starts with
\* state None and last_known_bytes 0.
AggDiscover(m) ==
    [a \in DOMAIN albums \cup {m.album} |->
        IF a = m.album THEN [i \in 1 .. m.n |-> [state |-> NoState, last |-> 0]]
        ELSE albums[a]]

\* Mutant of RenderedOf: only a track in state Downloading counts.
RenderedOfInFlight(tp) == IF tp.state.state = "Downloading" THEN tp.state.bytes ELSE 0

\* progress.rs:211-214  what one track adds to the album's byte count: the
\* bytes of its Downloading state, otherwise last_known_bytes.
RenderedOf(tp) == IF tp.state.state = "Downloading" THEN tp.state.bytes ELSE tp.last

RECURSIVE SumRendered(_, _)
SumRendered(tracks, n) ==
    IF n = 0 THEN 0 ELSE SumRendered(tracks, n - 1) + RenderedOf(tracks[n])

\* progress.rs:207-216  the byte count of an album's progress line.
RenderedBytes(a) == SumRendered(albums[a], Len(albums[a]))

\* No refresh_library call belongs to the message just handled.
NoRefresh ==
    /\ refreshCalls' = 0
    /\ refreshOutcome' = "none"
    /\ UNCHANGED refreshFailed

\* progress.rs:84-94  a new loop iteration reads last_edit.elapsed().
LoopTop ==
    /\ topElapsed' = sinceEdit
    /\ UNCHANGED <<sinceEdit, sinceRender>>

\* progress.rs:128-133  both get_mut calls find their entry.
Tracked(m) ==
    IF m.album \in DOMAIN albums THEN m.track \in DOMAIN albums[m.album] ELSE FALSE

\* Mutant of PendingAfterProgress: the handler breaks out of the match
\* and sets the flag.
PendingAfterProgressAlways(tracked, pending) == TRUE

\* progress.rs:128-141  `continue` on a missing album or track goes back to
\* the top of the loop; otherwise pending_edit = true.
PendingAfterProgress(tracked, pending) == IF tracked THEN TRUE ELSE pending

\* progress.rs:97-142  a DiscoverAlbum or Progress message is received and
\* handled.
AggRecv ==
    /\ rxAlive
    /\ chan # << >>
    /\ Head(chan).type \in {"Discover", "Progress"}
    /\ LET m == Head(chan) IN
         /\ chan' = Tail(chan)
         /\ CASE m.type = "Discover" ->
                   /\ albums' = AggDiscover(m)
                   /\ UNCHANGED pendingEdit
              [] m.type = "Progress" ->
                   /\ albums' = IF Tracked(m)
                                THEN [albums EXCEPT ![m.album][m.track] = AggApply(@, m.state)]
                                ELSE albums
                   /\ pendingEdit' = PendingAfterProgress(Tracked(m), pendingEdit)
    /\ NoRefresh /\ LoopTop
    /\ UNCHANGED <<beginVars, taskVars, artVars, rxAlive, mpdVars>>

\* Mutant of ShouldRefresh: the library is refreshed after every Done.
ShouldRefreshAlways(remaining) == TRUE

\* progress.rs:148  if self.albums.is_empty()
ShouldRefresh(remaining) == remaining = << >>

\* Mutant of SurvivesRefresh: the error of refresh_library is returned with `?`.
RefreshErrorPropagates(outcome) == outcome # "err"

\* progress.rs:149-151  if let Err(e) = self.refresh_library().await: the
\* error is logged and the loop goes on.
SurvivesRefresh(outcome) == TRUE

\* progress.rs:144-153, 273-282  a Done message is received and handled;
\* outcome is what refresh_library returns when it is called.
AggDoneWith(outcome) ==
    /\ rxAlive
    /\ chan # << >>
    /\ Head(chan).type = "Done"
    /\ LET m == Head(chan)
           remaining == [a \in DOMAIN albums \ {m.album} |-> albums[a]]
       IN  IF ShouldRefresh(remaining)
           THEN /\ refreshCalls' = 1
                /\ refreshOutcome' = outcome
                /\ refreshFailed' = (refreshFailed \/ outcome = "err")
                /\ IF SurvivesRefresh(outcome)
                   THEN /\ chan' = Tail(chan)
                        /\ albums' = remaining
                        /\ pendingEdit' = TRUE
                        /\ UNCHANGED rxAlive
                   ELSE /\ rxAlive' = FALSE
                        /\ chan' = << >>
                        /\ albums' = << >>
                        /\ pendingEdit' = FALSE
           ELSE /\ outcome = "ok"
                /\ NoRefresh
                /\ chan' = Tail(chan)
                /\ albums' = remaining
                /\ pendingEdit' = TRUE
                /\ UNCHANGED rxAlive
    /\ LoopTop
    /\ UNCHANGED <<beginVars, taskVars, artVars, mpdVars>>

\* refresh_library is not called or returns Ok (also without a Navidrome client).
AggDone == AggDoneWith("ok")

\* progress.rs:279  client.start_scan().await? fails.
AggDoneRefreshErr == AggDoneWith("err")

\* Mutant of Timeout: an edit is due as soon as one is pending.
TimeoutZero(elapsed) == 0

\* progress.rs:85-91  the time left until one second has passed since last_edit.
Timeout(elapsed) == IF elapsed >= Second THEN 0 ELSE Second - elapsed

\* progress.rs:157  tokio::time::sleep(timeout), started when the iteration
\* began, has run out.
SleepOver == sinceEdit - topElapsed >= Timeout(topElapsed)

\* progress.rs:157-161  the timer branch: the message is edited and
\* last_edit is set to now.
AggRender ==
    /\ rxAlive
    /\ pendingEdit
    /\ SleepOver
    /\ pendingEdit' = FALSE
    /\ sinceEdit' = 0
    /\ topElapsed' = 0
    /\ sinceRender' = 0
    /\ UNCHANGED <<refreshCalls, refreshOutcome, refreshFailed>>
    /\ UNCHANGED <<beginVars, taskVars, artVars, chan, rxAlive, albums, mpdVars>>

\* progress.rs:158  self.edit_message(..).await? : run returns the error and
\* the receiver is dropped with whatever it still holds.
AggRenderFail ==
    /\ rxAlive
    /\ pendingEdit
    /\ SleepOver
    /\ rxAlive' = FALSE
    /\ chan' = << >>
    /\ albums' = << >>
    /\ pendingEdit' = FALSE
    /\ NoRefresh
    /\ UNCHANGED <<sinceEdit, topElapsed, sinceRender>>
    /\ UNCHANGED <<beginVars, taskVars, artVars, mpdVars>>

\* progress.rs:97-98  every sender is gone and the channel is empty:
\* recv() returns None and the loop is left through `break`, whatever
\* pending_edit says; run returns Ok.
AggBreak ==
    /\ rxAlive
    /\ chan = << >>
    /\ rxAlive' = FALSE
    /\ albums' = << >>
    /\ pendingEdit' = FALSE
    /\ NoRefresh
    /\ UNCHANGED <<chan, sinceEdit, topElapsed, sinceRender>>
    /\ UNCHANGED <<beginVars, taskVars, artVars, mpdVars>>

UpTo(n, cap) == IF n < cap THEN n + 1 ELSE cap

\* Time passes while the loop waits in select!.
Tick ==
    /\ rxAlive
    /\ sinceEdit < Second \/ sinceRender < Second
    /\ sinceEdit' = UpTo(sinceEdit, Second)
    /\ sinceRender' = UpTo(sinceRender, Second)
    /\ UNCHANGED <<topElapsed, refreshCalls, refreshOutcome, refreshFailed>>
    /\ UNCHANGED <<beginVars, taskVars, artVars, chan, rxAlive, albums, pendingEdit, mpdVars>>

\* What a sender on progress_tx leaves alone.
SenderFrame ==
    UNCHANGED <<beginVars, taskVars, artVars, rxAlive, albums, pendingEdit, loopVars, mpdVars>>

\* Some handler announces album a with n tracks.
SendDiscover(a, n) ==
    /\ rxAlive /\ Len(chan) < MaxChan
    /\ chan' = Append(chan, DiscoverMsg(a, n))
    /\ SenderFrame

\* Some track task reports state st for track i of album a.
SendProgress(a, i, st) ==
    /\ rxAlive /\ Len(chan) < MaxChan
    /\ chan' = Append(chan, [type |-> "Progress", album |-> a, track |-> i,
                             state |-> st, n |-> 0])
    /\ SenderFrame

\* Some handler reports that album a is done.
SendDone(a) ==
    /\ rxAlive /\ Len(chan) < MaxChan
    /\ chan' = Append(chan, DoneMsg(a))
    /\ SenderFrame

----------------------------------------------------------------------------
(* Specifications                                                           *)

AllStreams == 1 .. NumStreams

AllRuns == {1, 2}

AllTracks == {1, 2}

AllTasks == AllRuns \X AllTracks

\* No call of download_track is modelled.
NoPayload == [valid |-> FALSE, text |-> <<"none">>]

MpdInitOver(ss, ms) ==
    /\ payload = NoPayload
    /\ non200 = {}
    /\ dlResult = NotCalled
    /\ streams = ss
    /\ manifest \in [ss -> ms]
    /\ phase = [s \in ss |-> "new"]
    /\ mpdErr = [s \in ss |-> NoErr]
    /\ startNumber = [s \in ss |-> 0]
    /\ segmentCounts = [s \in ss |-> << >>]
    /\ segs = [s \in ss |-> << >>]
    /\ emitted = [s \in ss |-> << >>]
    /\ overtook = [s \in ss |-> FALSE]
    /\ chunkCap \in 1 .. MaxChunkCap
    /\ chunkPermits = chunkCap

\* nt: run -> number of tracks; al: run -> album id; multi: the tracks with
\* more than one artist.
PipeInitOver(nt, al, caps, fileSets, chunkChoices, multi, rx) ==
    LET T == {t \in (DOMAIN nt) \X AllTracks : t[2] <= nt[t[1]]} IN
    /\ runs = DOMAIN nt
    /\ ntracks = nt
    /\ albumOf = al
    /\ cursor = [r \in DOMAIN nt |-> 0]
    /\ doneSent = [r \in DOMAIN nt |-> 0]
    /\ checked = [r \in DOMAIN nt |-> FALSE]
    /\ trackCap \in caps
    /\ trackPermits = trackCap
    /\ files \in fileSets
    /\ maxChunks \in chunkChoices
    /\ orphaned = {}
    /\ multiArtist = [t \in T |-> t \in multi]
    /\ pc = [t \in T |-> "pending"]
    /\ holds = [t \in T |-> FALSE]
    /\ attempts = [t \in T |-> 0]
    /\ failures = [t \in T |-> 0]
    /\ manifestFetches = [t \in T |-> 0]
    /\ encoderStarted = [t \in T |-> FALSE]
    /\ downloaded = [t \in T |-> 0]
    /\ chunksRead = [t \in T |-> 0]
    /\ written = [t \in T |-> 0]
    /\ log = [t \in T |-> << >>]
    /\ finishedSent = [t \in T |-> 0]
    /\ existedAtCheck = [t \in T |-> "unvisited"]
    /\ lastErr = [t \in T |-> NoFailure]
    /\ artPc = [r \in DOMAIN nt |-> "pending"]
    /\ artAttempts = [r \in DOMAIN nt |-> 0]
    /\ partialCovers = {}
    /\ chan = << >>
    /\ rxAlive = rx
    /\ albums = << >>
    /\ pendingEdit = FALSE
    /\ sinceEdit = Second
    /\ topElapsed = Second
    /\ sinceRender = Second
    /\ refreshCalls = 0
    /\ refreshOutcome = "none"
    /\ refreshFailed = FALSE

\* No segmented stream is modelled.
MpdIdle == MpdInitOver({}, {}) /\ chunkCap = 1

\* No album run is modelled.
PipeIdle == PipeInitOver(<< >>, << >>, {0}, {{}}, {0}, {}, FALSE)

MaxSegments == 2 * (MaxRepeat + 1)

NextStream ==
    \/ \E s \in AllStreams : s \in streams /\ DownloadMpd(s)
    \/ \E s \in AllStreams : s \in streams /\ PollInit(s)
    \/ \E s \in AllStreams : s \in streams /\ InitOk(s)
    \/ \E s \in AllStreams : s \in streams /\ InitFail(s)
    \/ \E s \in AllStreams : s \in streams /\ Dispatch(s)
    \/ \E s \in AllStreams, i \in 1 .. MaxSegments : s \in streams /\ SegAcquire(s, i)
    \/ \E s \in AllStreams, i \in 1 .. MaxSegments : s \in streams /\ SegOk(s, i)
    \/ \E s \in AllStreams, i \in 1 .. MaxSegments : s \in streams /\ SegFail(s, i)
    \/ \E s \in AllStreams : s \in streams /\ Emit(s)

\* One segmented stream over every manifest shape.
InitMpd == MpdInitOver({1}, Manifests) /\ PipeIdle

SpecMpd == InitMpd /\ [][NextStream]_vars

\* Several segmented streams sharing the chunk semaphore.
InitChunk == MpdInitOver(AllStreams, SharedManifests) /\ PipeIdle

SpecChunk == InitChunk /\ [][NextStream]_vars

\* One segmented stream whose server may answer any request with a status
\* other than 200.
NextHttp ==
    \/ NextStream
    \/ \E s \in AllStreams : s \in streams /\ InitNotOk(s)
    \/ \E s \in AllStreams, i \in 1 .. MaxSegments : s \in streams /\ SegNotOk(s, i)

SpecHttp == InitMpd /\ [][NextHttp]_vars

\* begin, the track tasks up to the first chunk of the audio stream, and the
\* first step of the album-art task.
NextAdmit ==
    \/ \E r \in AllRuns : r \in runs /\ RunStart(r)
    \/ \E r \in AllRuns : r \in runs /\ BeginCheck(r)
    \/ \E r \in AllRuns : r \in runs /\ BeginAdmit(r)
    \/ \E r \in AllRuns : r \in runs /\ BeginArt(r)
    \/ \E t \in AllTasks : t \in Tasks /\ StartAttempt(t)
    \/ \E t \in AllTasks : t \in Tasks /\ TrackOk(t)
    \/ \E t \in AllTasks : t \in Tasks /\ TrackFail(t)
    \/ \E t \in AllTasks : t \in Tasks /\ StreamOk(t)
    \/ \E t \in AllTasks : t \in Tasks /\ StreamFail(t)
    \/ \E t \in AllTasks : t \in Tasks /\ SpawnFail(t)
    \/ \E t \in AllTasks : t \in Tasks /\ ReadErr(t)
    \/ \E t \in AllTasks : t \in Tasks /\ ReadEnd(t)
    \/ \E t \in AllTasks : t \in Tasks /\ WaitOk(t)
    \/ \E t \in AllTasks : t \in Tasks /\ WaitFail(t)
    \/ \E t \in AllTasks : t \in Tasks /\ TagsOk(t)
    \/ \E t \in AllTasks : t \in Tasks /\ TagsFail(t)
    \/ \E r \in AllRuns : r \in runs /\ ArtStart(r)

\* The album-art task past its existence check.
NextArt ==
    \/ \E r \in AllRuns : r \in runs /\ ArtAlbumOk(r)
    \/ \E r \in AllRuns : r \in runs /\ ArtAlbumFail(r)
    \/ \E r \in AllRuns : r \in runs /\ ArtFetchOk(r)
    \/ \E r \in AllRuns : r \in runs /\ ArtFetchFail(r)
    \/ \E r \in AllRuns : r \in runs /\ ArtWriteEnd(r)
    \/ \E r \in AllRuns : r \in runs /\ ArtWriteFail(r)

NextTracks ==
    \/ NextAdmit
    \/ \E t \in AllTasks, len \in 0 .. MaxChunkLen : t \in Tasks /\ ReadChunk(t, len)
    \/ \E t \in AllTasks : t \in Tasks /\ WriteFail(t)

NextRun == NextAdmit \/ NextArt

NextAgg ==
    \/ NextTracks
    \/ AggRecv
    \/ AggRender
    \/ AggRenderFail
    \/ Tick

\* One album of two tracks (the first with several artists) and its cover,
\* empty audio streams, the progress receiver gone: the whole of Pipeline::begin.
Init ==
    /\ MpdIdle
    /\ PipeInitOver([r \in {1} |-> 2], [r \in {1} |-> 1], 1 .. MaxTrackCap,
                    {{}, {<<1, 2>>}}, {0}, {<<1, 1>>}, FALSE)

Spec == Init /\ [][NextRun]_vars

\* Tracks competing for the track semaphore, within one run or across two
\* runs on different albums; the covers are already on disk.
InitSem ==
    /\ MpdIdle
    /\ \/ PipeInitOver([r \in {1} |-> 2], [r \in {1} |-> 1], 1 .. MaxTrackCap,
                       {{<<1, 0>>}}, {0}, {<<1, 1>>}, FALSE)
       \/ PipeInitOver([r \in {1, 2} |-> 1], [r \in {1, 2} |-> r], 1 .. MaxTrackCap,
                       {{<<1, 0>>, <<2, 0>>}}, {0}, {<<1, 1>>}, FALSE)

SpecSem == InitSem /\ [][NextAdmit]_vars

\* One album of two tracks, the second possibly on disk already, the cover on
\* disk; begin and every task it spawned take their steps.
InitBegin ==
    /\ MpdIdle
    /\ PipeInitOver([r \in {1} |-> 2], [r \in {1} |-> 1], 1 .. MaxTrackCap,
                    {{<<1, 0>>}, {<<1, 0>>, <<1, 2>>}}, {0}, {<<1, 1>>}, FALSE)

FairSpecBegin == InitBegin /\ [][NextAdmit]_vars /\ WF_vars(NextAdmit)

\* One track and its Transcoder::run over every stream of up to MaxChunks chunks.
InitTrack ==
    /\ MpdIdle
    /\ \E m \in SUBSET {<<1, 1>>} :
         PipeInitOver([r \in {1} |-> 1], [r \in {1} |-> 1], {1},
                      {{<<1, 0>>}, {<<1, 0>>, <<1, 1>>}}, {MaxChunks}, m, FALSE)

SpecTrack == InitTrack /\ [][NextTracks]_vars

\* One track, with the ffmpeg process of a failed attempt exiting when it
\* does: before the retry, during it or never.
NextEncoder ==
    \/ NextTracks
    \/ \E t \in AllTasks : t \in Tasks /\ ReadErrAlive(t)
    \/ \E t \in AllTasks : t \in Tasks /\ OrphanExits(t)

SpecEncoder == InitTrack /\ [][NextEncoder]_vars

\* One track, the progress channel and its consumer.
InitAgg ==
    /\ MpdIdle
    /\ \E m \in SUBSET {<<1, 1>>} :
         PipeInitOver([r \in {1} |-> 1], [r \in {1} |-> 1], {1},
                      {{<<1, 0>>}, {<<1, 0>>, <<1, 1>>}}, {1}, m, TRUE)

SpecAgg == InitAgg /\ [][NextAgg]_vars

LoopAlbums == {1, 2}

LoopStates == {Downloading(1)}

\* The aggregator loop alone, fed by arbitrary senders: albums of one track,
\* progress also for a track no album has.
NextLoop ==
    \/ \E a \in LoopAlbums : SendDiscover(a, 1)
    \/ \E a \in LoopAlbums, i \in {1, 2}, st \in LoopStates : SendProgress(a, i, st)
    \/ \E a \in LoopAlbums : SendDone(a)
    \/ AggRecv
    \/ AggDone
    \/ AggDoneRefreshErr
    \/ AggRender
    \/ AggRenderFail
    \/ Tick

InitLoop == MpdIdle /\ PipeInitOver(<< >>, << >>, {0}, {{}}, {0}, {}, TRUE)

\* The aggregator loop whose edits all succeed and whose senders may all go
\* away.
NextClose ==
    \/ \E a \in LoopAlbums : SendDiscover(a, 1)
    \/ \E a \in LoopAlbums, i \in {1, 2}, st \in LoopStates : SendProgress(a, i, st)
    \/ \E a \in LoopAlbums : SendDone(a)
    \/ AggRecv
    \/ AggDone
    \/ AggRender
    \/ Tick
    \/ AggBreak

SpecClose == InitLoop /\ [][NextClose]_vars

SpecLoop == InitLoop /\ [][NextLoop]_vars

\* The two semaphores at work: one album of one track whose task may also
\* panic, next to one segmented stream of two media segments.
NextPools ==
    \/ NextAdmit
    \/ \E t \in AllTasks : t \in Tasks /\ TaskPanic(t)
    \/ NextStream

InitPools ==
    /\ MpdInitOver({1}, {WellFormed(Val(1), Timeline(<<[d |-> Val(10), r |-> Val(1)]>>))})
    /\ PipeInitOver([r \in {1} |-> 1], [r \in {1} |-> 1], 1 .. MaxTrackCap,
                    {{<<1, 0>>}}, {0}, {<<1, 1>>}, FALSE)

SpecPools == InitPools /\ [][NextPools]_vars

\* download_track on every payload of up to MaxTextLen tokens.
NextClassify ==
    \/ DownloadTrack
    \/ ResponseOk
    \/ ResponseNotOk
    \/ ResponseErr

InitClassify ==
    /\ payload \in Payloads
    /\ non200 = {}
    /\ dlResult = NotCalled
    /\ streams = {}
    /\ manifest = << >>
    /\ phase = << >>
    /\ mpdErr = << >>
    /\ startNumber = << >>
    /\ segmentCounts = << >>
    /\ segs = << >>
    /\ emitted = << >>
    /\ overtook = << >>
    /\ chunkCap = 1
    /\ chunkPermits = chunkCap
    /\ PipeIdle

SpecClassify == InitClassify /\ [][NextClassify]_vars

\* One album of one track and its cover, from the selection to the return of
\* the handler.
NextHandler ==
    \/ NextRun
    \/ \E r \in AllRuns : r \in runs /\ HandlerError(r)
    \/ \E r \in AllRuns : r \in runs /\ HandlerDone(r)

InitHandler ==
    /\ MpdIdle
    /\ PipeInitOver([r \in {1} |-> 1], [r \in {1} |-> 1], 1 .. MaxTrackCap,
                    {{}, {<<1, 1>>}}, {0}, {<<1, 1>>}, FALSE)

SpecHandler == InitHandler /\ [][NextHandler]_vars

\* The output files: two runs started for the same album of one track, the
\* cover already on disk, and the encoder creating its output while it runs.
NextFiles ==
    \/ NextAdmit
    \/ \E t \in AllTasks : t \in Tasks /\ EncoderCreatesFile(t)

InitFiles ==
    /\ MpdIdle
    /\ PipeInitOver([r \in {1, 2} |-> 1], [r \in {1, 2} |-> 1], 1 .. MaxTrackCap,
                    {{<<1, 0>>}}, {0}, {<<1, 1>>, <<2, 1>>}, FALSE)

SpecFiles == InitFiles /\ [][NextFiles]_vars

----------------------------------------------------------------------------
(* Properties of the segmented streamer                                     *)

Dispatched(s) == phase[s] \in {"collect", "done", "failed"}

\* C1: whatever the order in which the segment fetches complete, the stream
\* yields the initialization segment first and then the media segments with
\* numbers start, start+1, ... in ascending order, each exactly once; an error
\* item can only be the last item, and a stream that ends normally has yielded
\* every media segment.
C1_EmissionOrder ==
    \A s \in streams :
        /\ \A k \in 1 .. Len(emitted[s]) :
              IF emitted[s][k].kind = "err"
              THEN k = Len(emitted[s]) /\ phase[s] \in {"initFailed", "failed"}
              ELSE emitted[s][k] =
                     IF k = 1 THEN InitItem
                     ELSE MediaItem(StartNumberOf(manifest[s]) + (k - 2))
        /\ phase[s] = "done" => Len(emitted[s]) = 1 + Len(segs[s])

\* A stream that ended normally with at least two media segments, one of
\* which finished fetching before an earlier one.
C1_Witness ==
    \E s \in streams :
        phase[s] = "done" /\ overtook[s] /\ Len(emitted[s]) >= 3

InFlight ==
    UNION {{<<s, i>> : i \in {j \in 1 .. Len(segs[s]) : segs[s][j].state = "fetching"}} :
             s \in streams}

\* C2: the media-segment fetches in flight, over all streams sharing the chunk
\* semaphore, never exceed the chunk-concurrency limit.
C2_ChunkBound == Cardinality(InFlight) <= chunkCap

\* The pool is exhausted by fetches of two different streams while another
\* spawned fetch waits for a permit.
C2_Witness ==
    /\ Cardinality(InFlight) = chunkCap
    /\ \E a \in InFlight, b \in InFlight : a[1] # b[1]
    /\ \E s \in streams : \E i \in 1 .. Len(segs[s]) : segs[s][i].state = "waiting"

HasNegativeRepeat(m) ==
    \E k \in 1 .. Len(m.timeline.entries) :
        m.timeline.entries[k].r.k = "ok" /\ m.timeline.entries[k].r.v < 0

\* C7 (as claimed): a timeline entry with a negative repeat count makes
\* download_mpd return the structural error NegativeRepeatUnsupported, and no
\* segment is fetched.
C7_NegativeRepeatRejected ==
    \A s \in streams :
        (HasNegativeRepeat(manifest[s]) /\ phase[s] # "new")
            => /\ phase[s] = "error"
               /\ mpdErr[s] = "NegativeRepeatUnsupported"
               /\ emitted[s] = << >>
               /\ segs[s] = << >>

RECURSIVE SumRepeats(_)
SumRepeats(es) ==
    IF es = << >> THEN 0
    ELSE (IF Head(es).r.k = "ok" THEN Head(es).r.v ELSE 0) + 1 + SumRepeats(Tail(es))

ExpectedSegments(m) ==
    IF m.timeline.present THEN SumRepeats(m.timeline.entries) ELSE 1

\* C8: once the stream has dispatched its fetches, their number is the sum of
\* (r+1) over the timeline entries (1 without a timeline), and the i-th
\* fetch (from 0) asks for number startNumber+i, startNumber being 1 when the
\* attribute is not given.
C8_SegmentPlan ==
    \A s \in streams :
        Dispatched(s) =>
            /\ Len(segs[s]) = ExpectedSegments(manifest[s])
            /\ \A i \in 1 .. Len(segs[s]) :
                  segs[s][i].number =
                     (IF manifest[s].start.k = "ok" THEN manifest[s].start.v ELSE 1) + (i - 1)

\* A timeline of two entries, one of them repeated, with a declared start
\* number: three fetches, all of them sent and finished.
C8_Witness ==
    \E s \in streams :
        /\ Dispatched(s)
        /\ Len(manifest[s].timeline.entries) = 2
        /\ manifest[s].start = Val(5)
        /\ Len(segs[s]) = 3
        /\ \A i \in 1 .. 3 : segs[s][i].state \in {"ok", "yielded"}

\* C8, second case: no timeline and no start number, one fetch with number 1.
C8_WitnessNoTimeline ==
    \E s \in streams :
        /\ Dispatched(s) /\ ~manifest[s].timeline.present
        /\ manifest[s].start = Absent
        /\ Len(segs[s]) = 1 /\ segs[s][1].number = 1

----------------------------------------------------------------------------
(* Properties of Pipeline::begin and of the track tasks                     *)

\* A task whose first attempt has started and whose handle has not resolved.
Active(t) == attempts[t] >= 1 /\ pc[t] \notin {"ok", "failed"}

\* A task between its Downloading(0) and the end of that attempt.
InWindow(t) == pc[t] \in {"read", "wait", "tags"}

\* C3: with a track-concurrency limit of N at most N tracks, over all the
\* pipelines sharing the track semaphore, are between the start of their first
\* attempt and the resolution of their handle; with N = 1 no two tracks are
\* inside their Downloading/Transcoding window at the same time.
C3_TrackBound ==
    /\ Cardinality({t \in Tasks : Active(t)}) <= trackCap
    /\ trackCap = 1 => Cardinality({t \in Tasks : InWindow(t)}) <= 1

\* Limit 1, two pipelines: a track that already failed once is encoding while
\* the other pipeline's begin waits for the permit.
C3_Witness ==
    /\ trackCap = 1
    /\ Cardinality(runs) = 2
    /\ \E t \in Tasks :
         /\ pc[t] = "wait" /\ failures[t] >= 1
         /\ \E r \in runs : r # t[1] /\ checked[r] /\ trackPermits = 0

\* C4: a track whose destination file exists when begin reaches it is skipped:
\* no progress event is sent for it, no request is issued, no permit is
\* acquired and no encoder is started, ever.
C4_ExistingSkipped ==
    \A t \in Tasks :
        existedAtCheck[t] = "yes" =>
            /\ pc[t] = "skipped"
            /\ log[t] = << >> /\ finishedSent[t] = 0
            /\ \A k \in 1 .. Len(chan) :
                  ~(chan[k].type = "Progress" /\ chan[k].album = albumOf[t[1]]
                      /\ chan[k].track = t[2])
            /\ attempts[t] = 0 /\ manifestFetches[t] = 0
            /\ ~holds[t]
            /\ ~encoderStarted[t]

\* begin has returned, having skipped the second track, and the first track
\* was downloaded.
C4_Witness ==
    \E r \in runs :
        /\ cursor[r] = ntracks[r] + 2
        /\ existedAtCheck[<<r, 2>>] = "yes"
        /\ pc[<<r, 1>>] = "ok"

C5_Resolved ==
    \A t \in Tasks :
        pc[t] = "ok" =>
            /\ failures[t] <= RetryTake
            /\ attempts[t] = failures[t] + 1
            /\ manifestFetches[t] = failures[t] + 1
            /\ finishedSent[t] = 1
            /\ log[t][Len(log[t])] = FinishedState

C5_NothingAfterSuccess ==
    \A t \in Tasks :
        pc[t] = "ok" =>
            /\ pc'[t] = "ok"
            /\ attempts'[t] = attempts[t]
            /\ manifestFetches'[t] = manifestFetches[t]
            /\ finishedSent'[t] = finishedSent[t]

\* C5: a track whose first k attempts failed and whose attempt k+1 succeeded
\* has a handle resolved to success, has sent Finished once and has fetched the
\* track manifest exactly k+1 times, and after the success no attempt is made.
C5_RetryThenSuccess == []C5_Resolved /\ [][C5_NothingAfterSuccess]_vars

\* The whole retry budget was used: five failed attempts, the sixth succeeded.
C5_Witness ==
    \E t \in Tasks :
        pc[t] = "ok" /\ failures[t] = RetryTake /\ manifestFetches[t] = RetryTake + 1

\* A track task is exhausted by this step.
Exhausts(t) == pc[t] # "failed" /\ pc'[t] = "failed"

\* The step that exhausts a track changes nothing of any other task, of the
\* album-art tasks or of the files, and gives the track's permit back.
C6_OnlyOwnHandle ==
    \A t \in Tasks :
        Exhausts(t) =>
            /\ failures'[t] = RetryTake + 1
            /\ \A u \in Tasks \ {t} :
                  /\ pc'[u] = pc[u] /\ holds'[u] = holds[u]
                  /\ attempts'[u] = attempts[u] /\ failures'[u] = failures[u]
                  /\ log'[u] = log[u]
            /\ artPc' = artPc /\ artAttempts' = artAttempts
            /\ files' = files
            /\ ~holds'[t]

\* Every handle resolves with the outcome of its own task, and a task that
\* has not resolved is never left without a step of its own.
C6_OwnOutcome ==
    /\ \A u \in Tasks :
          /\ pc[u] = "failed" => failures[u] = RetryTake + 1
          /\ pc[u] = "ok" => finishedSent[u] = 1 /\ failures[u] <= RetryTake
          /\ pc[u] \in {"spawned", "retry"} => ENABLED StartAttempt(u)
          /\ pc[u] = "track" => ENABLED TrackOk(u)
          /\ pc[u] = "stream" => ENABLED StreamOk(u)
          /\ pc[u] = "read" => ENABLED ReadEnd(u)
          /\ pc[u] = "wait" => ENABLED WaitOk(u)
          /\ pc[u] = "tags" => ENABLED TagsOk(u)
    /\ \A r \in runs :
          /\ artPc[r] = "failed" => artAttempts[r] = RetryTake + 1
          /\ artPc[r] \in {"spawned", "retry"} => ENABLED ArtStart(r)
          /\ artPc[r] = "album" => ENABLED ArtAlbumOk(r)
          /\ artPc[r] = "art" => ENABLED ArtFetchOk(r)
          /\ artPc[r] = "write" => ENABLED ArtWriteEnd(r)
          /\ (checked[r] /\ \A u \in Tasks : pc[u] \in {"pending", "skipped", "ok", "failed"})
                => ENABLED BeginAdmit(r)

\* C6: a track that exhausts its retries fails its own handle only: its
\* sibling track tasks and the album-art task are left as they are, keep
\* running, and resolve with their own outcomes.
C6_FailureIsolated == []C6_OwnOutcome /\ [][C6_OnlyOwnHandle]_vars

\* Limit 1: the first track was exhausted, after which the second track was
\* admitted and downloaded, and the cover was fetched.
C6_Witness ==
    /\ trackCap = 1
    /\ pc[<<1, 1>>] = "failed" /\ failures[<<1, 1>>] = RetryTake + 1
    /\ pc[<<1, 2>>] = "ok"
    /\ artPc[1] = "ok" /\ artAttempts[1] > 1

----------------------------------------------------------------------------
(* Properties of the progress events                                        *)

Rank(st) ==
    CASE st.state = "Downloading" -> 1
      [] st.state = "Transcoding" -> 2
      [] st.state = "Finished" -> 3

DownloadingEvents(L) == {k \in 1 .. Len(L) : L[k].state = "Downloading"}

\* C9: the events of one attempt are Downloading(0), then one Downloading per
\* chunk written carrying the total written so far (so never decreasing), then
\* at most one Transcoding, then at most one Finished, in that order.
C9_EventOrder ==
    \A t \in Tasks :
        LET L == log[t] IN
        /\ L # << >> => L[1] = Downloading(0)
        /\ \A i, j \in 1 .. Len(L) : i < j => Rank(L[i]) <= Rank(L[j])
        /\ \A i, j \in DownloadingEvents(L) : i < j => L[i].bytes <= L[j].bytes
        /\ Cardinality(DownloadingEvents(L)) = (IF L = << >> THEN 0 ELSE chunksRead[t] + 1)
        /\ \A k \in DownloadingEvents(L) :
              (\A j \in DownloadingEvents(L) : j <= k) => L[k].bytes = written[t]
        /\ Cardinality({k \in 1 .. Len(L) : L[k].state = "Transcoding"}) <= 1
        /\ Cardinality({k \in 1 .. Len(L) : L[k].state = "Finished"}) <= 1

\* A finished attempt: two chunks, the second of one byte, then Transcoding
\* and Finished.
C9_Witness ==
    \E t \in Tasks :
        /\ pc[t] = "ok" /\ Len(log[t]) = 5
        /\ log[t][2].bytes < log[t][3].bytes
        /\ log[t][4] = Transcoding /\ log[t][5] = FinishedState

----------------------------------------------------------------------------
(* Properties of the progress aggregator                                    *)

\* A retry of t has begun and the new attempt has not sent anything yet.
Retrying(t) == failures[t] >= 1 /\ pc[t] \in {"retry", "track", "stream"}

\* The aggregator has handled every message sent for t so far.
Drained(t) ==
    /\ rxAlive
    /\ albumOf[t[1]] \in DOMAIN albums
    /\ \A k \in 1 .. Len(chan) : ~(chan[k].type = "Progress" /\ chan[k].track = t[2])

\* C10 (as claimed): once an attempt has failed and the retry has begun, the
\* state the aggregator tracks for the track is back to Waiting, the state it
\* had before any event was received, until the new attempt's Downloading
\* events are applied.
C10_ResetToWaiting ==
    \A t \in Tasks :
        (Retrying(t) /\ Drained(t)) => albums[albumOf[t[1]]][t[2]].state = NoState

----------------------------------------------------------------------------
(* Properties of the outcome of an attempt                                  *)

\* Finished has been sent exactly for the tasks whose attempt returned Ok.
C11_FinishedIffOk ==
    \A t \in Tasks :
        /\ finishedSent[t] = (IF pc[t] = "ok" THEN 1 ELSE 0)
        /\ (\E k \in 1 .. Len(log[t]) : log[t][k] = FinishedState) <=> pc[t] = "ok"

\* Finished is sent only by the step that ends the attempt with Ok, after the
\* stream ended and the last process of the attempt exited with status zero;
\* a step that fails the attempt sends nothing.
C11_FinishedStep ==
    \A t \in Tasks :
        /\ finishedSent'[t] # finishedSent[t] =>
              /\ pc[t] = (IF multiArtist[t] THEN "tags" ELSE "wait")
              /\ pc'[t] = "ok"
              /\ log[t][Len(log[t])] = Transcoding
              /\ Len(log[t]) = chunksRead[t] + 2
              /\ PathOf(t) \in files'
        /\ (pc[t] # pc'[t] /\ pc'[t] \in {"retry", "failed"}) =>
              /\ finishedSent'[t] = finishedSent[t]
              /\ chan' = chan

\* C11: in every attempt Finished is emitted if and only if the attempt
\* succeeds: the stream was written to its end, ffmpeg exited with status zero
\* and, for a track with several artists, opustags did too; a non-zero exit of
\* either fails the attempt without a Finished event.
C11_FinishedOnlyOnSuccess == []C11_FinishedIffOk /\ [][C11_FinishedStep]_vars

\* A track with several artists finished on a retried attempt, past both
\* processes.
C11_Witness ==
    \E t \in Tasks :
        /\ multiArtist[t] /\ pc[t] = "ok" /\ failures[t] >= 1
        /\ finishedSent[t] = 1

\* C12 (as claimed): a track that exhausted its retries has a failure
\* reported on the progress channel, queued or already applied by the
\* aggregator.
C12_FailureReported ==
    \A t \in Tasks :
        (pc[t] = "failed" /\ rxAlive) =>
            \/ \E k \in 1 .. Len(chan) :
                  /\ chan[k].type = "Progress" /\ chan[k].track = t[2]
                  /\ chan[k].state.state = "Failed"
            \/ /\ albumOf[t[1]] \in DOMAIN albums
               /\ albums[albumOf[t[1]]][t[2]].state.state = "Failed"

----------------------------------------------------------------------------
(* Properties of the aggregator loop                                        *)

\* The loop takes the oldest message off the channel and goes on.
Receives(type) ==
    /\ rxAlive /\ chan # << >> /\ Head(chan).type = type
    /\ Len(chan') < Len(chan)
    /\ rxAlive'

\* The loop edits the message.
Renders == rxAlive /\ pendingEdit /\ ~pendingEdit' /\ rxAlive' /\ chan' = chan

\* Without the album of the message at the head of the channel.
Remaining == [a \in DOMAIN albums \ {Head(chan).album} |-> albums[a]]

\* A waiting DiscoverAlbum or Progress message can be received whatever the
\* timer says.
C13_ReceiptNeverWaits ==
    (rxAlive /\ chan # << >> /\ Head(chan).type \in {"Discover", "Progress"})
        => ENABLED AggRecv

\* An edit is made only when a second has passed since the edit before it, and
\* a received Progress message of a tracked track is stored in the same step.
C13_RenderStep ==
    /\ Renders => sinceRender >= Second
    /\ Receives("Progress") =>
          LET m == Head(chan) IN
          (m.album \in DOMAIN albums /\ m.track \in DOMAIN albums[m.album]) =>
              /\ albums'[m.album][m.track].state = m.state
              /\ pendingEdit'

\* C13: whatever the rate of the incoming events, two successive edits of the
\* message are at least one second apart, while every Progress event of a
\* tracked track is applied as soon as it is received.
C13_DebouncedRender == []C13_ReceiptNeverWaits /\ [][C13_RenderStep]_vars

\* Less than a second after an edit a new update has been applied and is
\* pending, and the next edit is held back.
C13_Witness ==
    /\ rxAlive /\ pendingEdit
    /\ sinceRender = 1
    /\ \E a \in DOMAIN albums : albums[a][1].state = Downloading(1)
    /\ ~ENABLED AggRender

\* A refresh belongs only to a message after which no album is tracked.
C14_RefreshOnlyWhenEmpty ==
    /\ refreshCalls \in {0, 1}
    /\ refreshCalls = 1 => albums = << >>

\* Handling Done removes that album and no other, calls refresh_library once
\* when that removed the last tracked album and not at all when an album is
\* still tracked.
C14_DoneStep ==
    Receives("Done") =>
        /\ albums' = Remaining
        /\ Remaining # << >> => refreshCalls' = 0
        /\ (Head(chan).album \in DOMAIN albums /\ Remaining = << >>) => refreshCalls' = 1

\* C14: the library refresh is fired exactly once for each Done whose handling
\* removes the last tracked album, never while an album is still tracked after
\* the removal, and a Done removes its own album only.
C14_RefreshOnLastAlbum == []C14_RefreshOnlyWhenEmpty /\ [][C14_DoneStep]_vars

\* The Done of the last tracked album has just been handled and the library
\* refreshed.
C14_Witness ==
    /\ rxAlive /\ albums = << >>
    /\ refreshCalls = 1 /\ refreshOutcome = "ok"
    /\ pendingEdit

\* After a failed refresh the loop still takes every kind of message and still
\* edits when an edit is due.
C15_LoopGoesOn ==
    (refreshFailed /\ rxAlive) =>
        /\ (chan # << >> /\ Head(chan).type \in {"Discover", "Progress"}) => ENABLED AggRecv
        /\ (chan # << >> /\ Head(chan).type = "Done") => ENABLED AggDone
        /\ (pendingEdit /\ sinceEdit >= Second) => ENABLED AggRender

\* The step in which refresh_library fails leaves the loop running with the
\* album removed and nothing else changed, and calls it once.
C15_FailedRefreshStep ==
    (rxAlive /\ chan # << >> /\ Head(chan).type = "Done"
       /\ Len(chan') < Len(chan) /\ refreshOutcome' = "err") =>
        /\ rxAlive'
        /\ chan' = Tail(chan)
        /\ albums' = Remaining
        /\ refreshCalls' = 1
        /\ pendingEdit'

\* C15: a failed library refresh is neither retried nor propagated: the loop
\* keeps running with the tracked state it had after the removal, and later
\* events are still processed and rendered.
C15_RefreshBestEffort == []C15_LoopGoesOn /\ [][C15_FailedRefreshStep]_vars

\* After a failed refresh an album was announced, a progress event of its
\* track applied, and the message edited.
C15_Witness ==
    /\ refreshFailed /\ rxAlive
    /\ 1 \in DOMAIN albums /\ albums[1][1].state = Downloading(1)
    /\ ~pendingEdit /\ sinceRender = 0

----------------------------------------------------------------------------
(* Properties of the stream between the fetches and the encoder             *)

\* The media segments of stream s whose bytes have arrived and which the
\* consumer of the stream (the loop writing to the encoder's input) has not
\* been handed yet.
FetchedUnwritten(s) == {i \in 1 .. Len(segs[s]) : segs[s][i].state = "ok"}

\* C16 (as claimed): the media segments fetched but not yet written to the
\* encoder's input are at most as many as the chunk-concurrency limit, however
\* many segments the track has, so an encoder that stops reading stops the
\* fetches.
C16_FetchesThrottledByEncoder ==
    \A s \in streams : Cardinality(FetchedUnwritten(s)) <= chunkCap

----------------------------------------------------------------------------
(* Properties of the two permit pools                                       *)

\* The track tasks that have been spawned and have not ended.
Running == {t \in Tasks : pc[t] \notin {"pending", "skipped", "ok", "failed", "panicked"}}

Holders == {t \in Tasks : holds[t]}

\* The segment fetch tasks that have been spawned and have not ended.
FetchTasks ==
    UNION {{<<s, i>> : i \in {j \in 1 .. Len(segs[s]) :
                                 segs[s][j].state \in {"waiting", "fetching"}}} :
             s \in streams}

\* C17: in each pool the permits held and the permits available add up to the
\* capacity; a track permit is held exactly by the track tasks that have not
\* ended, however a task ends (success, retries exhausted, panic); a chunk
\* permit is held only by a fetch that has not ended; and when no task is left
\* both pools are full.
C17_PermitsConserved ==
    /\ trackPermits + Cardinality(Holders) = trackCap
    /\ chunkPermits + Cardinality(InFlight) = chunkCap
    /\ trackPermits >= 0 /\ chunkPermits >= 0
    /\ Holders = Running
    /\ InFlight \subseteq FetchTasks
    /\ (Running = {} /\ FetchTasks = {}) => (trackPermits = trackCap /\ chunkPermits = chunkCap)

\* Every task has ended, the track task by a panic in a retried attempt, one
\* segment fetch with an error and one with its bytes.
C17_Witness ==
    /\ Running = {} /\ FetchTasks = {}
    /\ \E t \in Tasks : pc[t] = "panicked" /\ failures[t] >= 1
    /\ \E s \in streams : \E i, j \in 1 .. Len(segs[s]) :
          segs[s][i].state = "err" /\ segs[s][j].state \in {"ok", "yielded"}
    /\ trackPermits = trackCap /\ chunkPermits = chunkCap

----------------------------------------------------------------------------
(* Properties of the output files                                           *)

\* The task has an encoder, or the tag rewrite, open on its output path.
Writing(t) == pc[t] \in {"read", "wait", "tags"}

\* C18 (as claimed): no two tasks are writing the same output path at the same
\* moment, also when two runs for the same album are started concurrently.
C18_SingleWriter ==
    \A t \in Tasks, u \in Tasks :
        (t # u /\ Writing(t) /\ Writing(u)) => PathOf(t) # PathOf(u)

\* A task of the track at path p is spawned and has not ended.
WorkedOn(p) ==
    \E t \in Tasks : PathOf(t) = p /\ pc[t] \notin {"pending", "skipped", "ok", "failed"}

\* C19 (as claimed): while no task works on a track, a file at its path means
\* that an attempt for it completed successfully.
C19_FileMeansSuccess ==
    \A t \in Tasks :
        (PathOf(t) \in files /\ ~WorkedOn(PathOf(t))) =>
            \E u \in Tasks : PathOf(u) = PathOf(t) /\ pc[u] = "ok"

----------------------------------------------------------------------------
(* Properties of download_track                                             *)

\* C20: download_track puts every manifest into exactly one of three classes:
\* a decoded text containing the segmented-manifest marker goes to the
\* segmented streamer; otherwise a URL list with at least one URL is fetched
\* from its first URL; otherwise the call fails with ManifestDecode.  A payload
\* that is not base64 fails with Base64Decode.  In both failure cases, and
\* before the hand-over, download_track sends no media request.
C20_ManifestClassified ==
    dlResult.kind # "none" =>
        IF ~payload.valid
        THEN dlResult = Returned("Base64Decode")
        ELSE IF \E i \in 1 .. Len(payload.text) : payload.text[i] = MpdMarker
        THEN dlResult = Returned("mpd")
        ELSE IF payload.text # << >> /\ \A i \in 1 .. Len(payload.text) : payload.text[i] \in Urls
        THEN /\ dlResult.kind \in {"request", "regular", "Non200", "Request"}
             /\ dlResult.url = payload.text[1]
             /\ dlResult.requests = 1
        ELSE dlResult = Returned("ManifestDecode")

\* A list of two different URLs was fetched from its first URL and the byte
\* stream returned.
C20_Witness ==
    /\ payload.valid /\ Len(payload.text) >= 2
    /\ payload.text[1] # payload.text[2]
    /\ dlResult.kind = "regular" /\ dlResult.url = payload.text[1]

----------------------------------------------------------------------------
(* Properties of the HTTP status handling                                   *)

\* The position in segs of the k-th item a stream yielded (0: initialization).
SegmentOfItem(k) == k - 1

\* C21 (as claimed): the body of a response with a status other than 200 is
\* never yielded by the stream as media bytes for the encoder.
C21_Non200NeverWritten ==
    \A s \in streams : \A k \in 1 .. Len(emitted[s]) :
        emitted[s][k].kind \in {"init", "media"} => <<s, SegmentOfItem(k)>> \notin non200

----------------------------------------------------------------------------
(* Properties of a failing segmented stream                                 *)

\* A stream that failed on a media segment has yielded the initialization
\* segment, the media segments below the failed one in order, the error, and
\* nothing of the segments above it.
C22_FailedStreamPrefix ==
    \A s \in streams :
        phase[s] = "failed" =>
            LET n == Len(emitted[s]) IN
            /\ n >= 2
            /\ emitted[s][1] = InitItem
            /\ emitted[s][n] = ErrItem
            /\ \A k \in 2 .. (n - 1) :
                  emitted[s][k] = MediaItem(StartNumberOf(manifest[s]) + (k - 2))
            /\ \A i \in 1 .. Len(segs[s]) : segs[s][i].state = "yielded" <=> i <= n - 1

\* The stream has failed as soon as it has yielded an error.
C22_ErrorIsFinal ==
    \A s \in streams :
        (\E k \in 1 .. Len(emitted[s]) : emitted[s][k] = ErrItem) =>
            phase[s] \in {"initFailed", "failed"}

\* The error is yielded for the first segment not yet yielded, whose fetch
\* failed, and a failed stream yields nothing more.
C22_FailureStep ==
    \A s \in streams :
        /\ (phase[s] # "failed" /\ phase'[s] = "failed") =>
              LET i == Len(emitted[s]) IN
              /\ i \in 1 .. Len(segs[s])
              /\ segs[s][i].state = "err"
              /\ emitted'[s] = Append(emitted[s], ErrItem)
        /\ phase[s] = "failed" => (emitted'[s] = emitted[s] /\ phase'[s] = "failed")

\* C22: a failed segment fetch is yielded as the stream's item at that
\* segment's position and nothing is yielded afterwards: before it come exactly
\* the initialization segment and the media segments with lower numbers, in
\* order, and no later segment's bytes, even of a fetch that succeeded.
C22_ErrorEndsStream ==
    []C22_FailedStreamPrefix /\ []C22_ErrorIsFinal /\ [][C22_FailureStep]_vars

\* A stream failed on its second media segment while the fetch of a later
\* segment had succeeded.
C22_Witness ==
    \E s \in streams :
        /\ phase[s] = "failed" /\ Len(emitted[s]) = 3
        /\ \E i \in 3 .. Len(segs[s]) : segs[s][i].state = "ok"

----------------------------------------------------------------------------
(* Properties of the errors a track handle resolves to                      *)

\* TranscodeError::{StdinOpen, StdinWrite} and PipelineError::Io.
ProcessIoKinds == {"Transcode::StdinOpen", "Transcode::StdinWrite", "Io"}

ManifestKinds == {"Monochrome::Manifest"}

\* C23 (as claimed): the error of a failed track handle tells the kind of
\* failure: a fetch failure, also one that occurs while the stream is being
\* consumed, is not reported as a process-IO error kind nor as a structural
\* manifest error kind.
C23_ErrorKindIdentifiesFailure ==
    \A t \in Tasks :
        (pc[t] = "failed" /\ lastErr[t].cause = "fetch") =>
            lastErr[t].kind \notin ProcessIoKinds \cup ManifestKinds

----------------------------------------------------------------------------
(* Properties of the end of an album run                                    *)

HandlerReturned(r) == cursor[r] = ntracks[r] + 3

\* C24 (as claimed): every album run sends exactly one Done, and only after
\* every track handle and the album-art handle of the run have resolved.
C24_ExactlyOneAlbumDone ==
    \A r \in runs :
        /\ doneSent[r] <= 1
        /\ doneSent[r] = 1 => \A k \in HandleIds(r) : HandleState(r, k) # "running"
        /\ HandlerReturned(r) => doneSent[r] = 1

\* ---------------------------------------------------------------------------
\* Termination of a track task
\* ---------------------------------------------------------------------------

\* pipeline.rs:129-150  Retry::spawn polls the attempt it started to its end
\* before anything else: a track task that can take a step takes one.
FairSpecTrack == SpecTrack /\ WF_vars(NextTracks)

Resolved(t) == pc[t] \in {"skipped", "ok", "failed"}

C25_AttemptsBounded ==
    \A t \in Tasks :
        /\ attempts[t] <= RetryTake + 1
        /\ pc[t] = "ok" => /\ failures[t] = attempts[t] - 1
                           /\ lastErr[t] = NoFailure
        /\ pc[t] = "failed" => /\ attempts[t] = RetryTake + 1
                               /\ failures[t] = RetryTake + 1
                               /\ lastErr[t] # NoFailure

C25_ResolutionStep ==
    \A t \in Tasks :
        /\ Exhausts(t) => /\ lastErr[t] = NoFailure
                          /\ lastErr'[t] # NoFailure
                          /\ attempts[t] = RetryTake + 1
        /\ Resolved(t) => /\ pc'[t] = pc[t]
                          /\ attempts'[t] = attempts[t]
                          /\ lastErr'[t] = lastErr[t]

C25_AllResolved == \A t \in Tasks : Resolved(t)

\* C25: a track task makes at most six attempts (one plus the five retries),
\* every track task's handle eventually resolves, to success after an attempt
\* that succeeded or to the error of the sixth attempt, and a resolved task
\* makes no further attempt.
C25_TrackTaskTerminates ==
    /\ []C25_AttemptsBounded
    /\ [][C25_ResolutionStep]_vars
    /\ <>[]C25_AllResolved

\* The sixth attempt failed: the handle resolved to that attempt's error.
C25_Witness ==
    \E t \in Tasks :
        pc[t] = "failed" /\ attempts[t] = RetryTake + 1 /\ lastErr[t] = NonZeroExit

\* ---------------------------------------------------------------------------
\* The initialization segment comes first
\* ---------------------------------------------------------------------------

\* A media task of the stream exists (it was spawned, lib.rs:148).
MediaSpawned(s) == segs[s] # << >>

C26_InitEmittedFirst ==
    \A s \in streams :
        /\ MediaSpawned(s) => Len(emitted[s]) >= 1 /\ emitted[s][1] = InitItem
        /\ phase[s] = "initFetch" => ~MediaSpawned(s) /\ emitted[s] = << >>
        /\ phase[s] = "initFailed" => ~MediaSpawned(s) /\ emitted[s] = <<ErrItem>>

C26_SpawnStep ==
    \A s \in streams :
        (~MediaSpawned(s) /\ MediaSpawned(s)') => emitted[s] = <<InitItem>>

\* C26: media tasks are spawned only after the initialization segment was
\* received whole and yielded as the first item, and a stream whose
\* initialization request failed yields that error and spawns none.
C26_InitBeforeMedia == []C26_InitEmittedFirst /\ [][C26_SpawnStep]_vars

\* A media request is in flight and the only item yielded so far is the
\* initialization segment.
C26_Witness ==
    \E s \in streams :
        /\ emitted[s] = <<InitItem>>
        /\ \E i \in 1 .. Len(segs[s]) : segs[s][i].state = "fetching"

\* The initialization request of a stream with two planned segments failed.
C26_WitnessInitFailed ==
    \E s \in streams : phase[s] = "initFailed" /\ Len(segmentCounts[s]) = 2

\* ---------------------------------------------------------------------------
\* Structural defects of a segmented manifest
\* ---------------------------------------------------------------------------

\* pipeline.rs:136-138  download_track is being awaited by the attempt of t and
\* calls download_mpd on the manifest of s (lib.rs:67-70).
MpdCall(t, s) == pc[t] = "stream" /\ DownloadMpd(s)

\* lib.rs:69, pipeline.rs:138  download_mpd(..).await? and download_track(..).await? :
\* the structural error leaves the attempt before Transcoder::new.
MpdRejected(t, s) == pc[t] = "stream" /\ phase[s] = "error" /\ FailStep(t, ManifestError)

\* pipeline.rs:139-146  download_mpd returned the stream: the attempt goes on
\* to Transcoder::new and run.
MpdAccepted(t, s) == phase[s] = "ready" /\ StreamOk(t)

\* One track whose manifest is segmented; every attempt parses the same
\* document, so the parse of the first attempt stands for all of them.
NextSegmented ==
    \/ \E r \in AllRuns : r \in runs /\ RunStart(r)
    \/ \E r \in AllRuns : r \in runs /\ BeginCheck(r)
    \/ \E r \in AllRuns : r \in runs /\ BeginAdmit(r)
    \/ \E t \in AllTasks : t \in Tasks /\ StartAttempt(t)
    \/ \E t \in AllTasks : t \in Tasks /\ TrackOk(t)
    \/ \E t \in AllTasks : t \in Tasks /\ TrackFail(t)
    \/ \E t \in AllTasks, s \in AllStreams : t \in Tasks /\ s \in streams /\ MpdCall(t, s)
    \/ \E t \in AllTasks, s \in AllStreams : t \in Tasks /\ s \in streams /\ MpdRejected(t, s)
    \/ \E t \in AllTasks, s \in AllStreams : t \in Tasks /\ s \in streams /\ MpdAccepted(t, s)
    \/ \E t \in AllTasks : t \in Tasks /\ ReadErr(t)
    \/ \E t \in AllTasks : t \in Tasks /\ ReadEnd(t)
    \/ \E t \in AllTasks : t \in Tasks /\ WaitOk(t)
    \/ \E t \in AllTasks : t \in Tasks /\ WaitFail(t)

InitSegmented ==
    /\ MpdInitOver({1}, DefectManifests \cup SharedManifests)
    /\ chunkCap = 1
    /\ PipeInitOver([r \in {1} |-> 1], [r \in {1} |-> 1], {1}, {{<<1, 0>>}}, {0}, {}, FALSE)

SpecSegmented == InitSegmented /\ [][NextSegmented]_vars

\* The structural defects of the claim and the error kind of each
\* (error.rs:29-42).
DefectKinds(m) ==
    {k \in {"MissingSegmentTemplate", "MissingInitializationTemplate", "MissingMedia",
            "SMissingD", "UrlParse"} :
        \/ k = "MissingSegmentTemplate" /\ ~m.tpl
        \/ k = "MissingInitializationTemplate" /\ ~m.init
        \/ k = "MissingMedia" /\ ~m.media
        \/ k = "SMissingD" /\ \E i \in 1 .. Len(m.timeline.entries) :
                                 m.timeline.entries[i].d.k # "ok"
        \/ k = "UrlParse" /\ ~m.urlOk}

C27_DefectRejected ==
    \A s \in streams :
        LET m == manifest[s] IN
        (m.xml /\ DefectKinds(m) # {} /\ phase[s] # "new")
            => /\ phase[s] = "error"
               /\ {mpdErr[s]} = DefectKinds(m)
               /\ segs[s] = << >> /\ emitted[s] = << >>
               /\ \A t \in Tasks :
                     ~encoderStarted[t] /\ pc[t] \notin {"read", "wait", "tags", "ok"}

C27_RejectionStep ==
    \A s \in streams, t \in Tasks :
        (phase[s] = "error" /\ pc[t] = "stream" /\ pc'[t] # pc[t])
            => /\ lastErr'[t] = ManifestError
               /\ pc'[t] \in {"retry", "failed"}
               /\ failures'[t] = failures[t] + 1

\* C27: a segmented manifest without SegmentTemplate, without the
\* initialization or the media template, with a timeline entry whose duration
\* is missing or unparsable, or with an initialization template that is no
\* URL, makes download_mpd return the error kind of that defect; no segment
\* is fetched, the attempt fails with the manifest error and no ffmpeg process
\* is spawned.
C27_StructuralDefects == []C27_DefectRejected /\ [][C27_RejectionStep]_vars

\* The initialization template is no URL: all six attempts were rejected.
C27_Witness ==
    \E s \in streams, t \in Tasks :
        /\ mpdErr[s] = "UrlParse"
        /\ pc[t] = "failed" /\ lastErr[t] = ManifestError

\* ---------------------------------------------------------------------------
\* The tag-rewrite pass
\* ---------------------------------------------------------------------------

\* The positions in args of the arguments whose option or key is o.
Positions(args, o) == {i \in 1 .. Len(args) : args[i].opt = o}

C28_TagPassOnlyAfterEncoder ==
    \A t \in Tasks :
        /\ (pc[t] # "tags" /\ pc'[t] = "tags")
              => /\ pc[t] = "wait"
                 /\ Len(ArtistsOf(t)) > 1
                 /\ PathOf(t) \in files'
                 /\ failures'[t] = failures[t]
        /\ (pc[t] = "wait" /\ pc'[t] # "wait" /\ failures'[t] = failures[t])
              => (pc'[t] = "tags") = (Len(ArtistsOf(t)) > 1)
        /\ (pc[t] = "wait" /\ failures'[t] # failures[t]) => pc'[t] \in {"retry", "failed"}
        /\ (pc[t] # "ok" /\ pc'[t] = "ok")
              => pc[t] = (IF Len(ArtistsOf(t)) > 1 THEN "tags" ELSE "wait")

C28_Arguments ==
    \A t \in Tasks :
        LET artists == ArtistsOf(t)
            enc == EncoderArgs(artists, PathOf(t))
            tag == TagArgs(artists, PathOf(t))
        IN  /\ enc[Len(enc)] = PathArg(PathOf(t))
            /\ pc[t] = "tags"
                  => /\ tag[Len(tag)] = enc[Len(enc)]
                     /\ Cardinality(Positions(tag, "-a")) = Len(artists)
                     /\ Len(tag) = 2 * Len(artists) + 2
                     /\ \A k \in 1 .. Len(artists) :
                           /\ tag[2 * k] = Arg("-a")
                           /\ tag[2 * k + 1] = ArtistArg("ARTISTS=", artists[k])
                     /\ Positions(enc, "artist=") = {}
            /\ (Len(artists) = 1 /\ encoderStarted[t])
                  => /\ pc[t] # "tags"
                     /\ \E i \in Positions(enc, "artist=") :
                           /\ enc[i] = ArtistArg("artist=", artists[1])
                           /\ enc[i - 1] = Arg("-metadata")
                     /\ Cardinality(Positions(enc, "artist=")) = 1

\* C28: opustags is started exactly for a track with more than one artist
\* whose ffmpeg exited with status zero, and by the step that saw that exit;
\* its arguments are one -a ARTISTS= pair per artist, in order, and then the
\* path ffmpeg wrote.  A track with one artist has the artist among ffmpeg's
\* -metadata arguments and finishes without a second pass.
C28_TagPass == []C28_Arguments /\ [][C28_TagPassOnlyAfterEncoder]_vars

\* The tag pass of a two-artist track is running, in a retry.
C28_Witness ==
    \E t \in Tasks : pc[t] = "tags" /\ Len(ArtistsOf(t)) = 2 /\ failures[t] >= 1

\* A one-artist track has finished.
C28_WitnessSingle ==
    \E t \in Tasks : pc[t] = "ok" /\ Len(ArtistsOf(t)) = 1 /\ encoderStarted[t]

\* ---------------------------------------------------------------------------
\* The cover file
\* ---------------------------------------------------------------------------

\* C29 (as claimed): an album-art task that resolved to success left a
\* complete cover file: one that existed before, or one an attempt of the run
\* wrote to its last byte.
C29_CoverComplete ==
    \A r \in runs :
        artPc[r] = "ok" => CoverOf(r) \in files /\ CoverOf(r) \notin partialCovers

\* ---------------------------------------------------------------------------
\* The byte count of an album's progress line
\* ---------------------------------------------------------------------------

RECURSIVE SumInFlight(_, _)
\* The bytes of the tracks whose state is Downloading.
SumInFlight(tracks, n) ==
    IF n = 0 THEN 0
    ELSE SumInFlight(tracks, n - 1)
           + (IF tracks[n].state.state = "Downloading" THEN tracks[n].state.bytes ELSE 0)

C30_DownloadedBytes ==
    \A t \in Tasks :
        LET a == albumOf[t[1]] IN
        a \in DOMAIN albums =>
            /\ albums[a][t[2]].state = NoState => RenderedOf(albums[a][t[2]]) = 0
            /\ albums[a][t[2]].state.state = "Downloading"
                  => RenderedOf(albums[a][t[2]]) = albums[a][t[2]].state.bytes
            /\ (pc[t] = "ok" /\ Drained(t))
                  => /\ albums[a][t[2]].state = FinishedState
                     /\ RenderedBytes(a) = written[t]

\* Only a Downloading update changes the byte count of an album, and it
\* replaces what its track added by the bytes it carries.
C30_UpdateStep ==
    IF ~Receives("Progress") THEN TRUE
    ELSE LET m == Head(chan) IN
         IF m.album \notin DOMAIN albums THEN albums' = albums
         ELSE IF m.track \notin DOMAIN albums[m.album] THEN albums' = albums
         ELSE SumRendered(albums'[m.album], Len(albums'[m.album])) =
                IF m.state.state = "Downloading"
                THEN RenderedBytes(m.album) - RenderedOf(albums[m.album][m.track])
                       + m.state.bytes
                ELSE RenderedBytes(m.album)

C31_UntrackedStep ==
    (Receives("Progress") /\ ~Tracked(Head(chan)))
        => /\ albums' = albums
           /\ pendingEdit' = pendingEdit
           /\ refreshFailed' = refreshFailed
           /\ sinceRender' = sinceRender

\* C31: a Progress event for an album the aggregator does not track, or for
\* a track its album does not have, changes nothing of the aggregator's
\* state, and the pending-render flag keeps its value.
C31_UntrackedIgnored == [][C31_UntrackedStep]_vars

\* The album is tracked, the track of the event at the head of the channel
\* is not one of its tracks, and no render is pending.
C31_Witness ==
    /\ rxAlive /\ chan # << >> /\ ~pendingEdit
    /\ Head(chan).type = "Progress"
    /\ Head(chan).album \in DOMAIN albums
    /\ ~Tracked(Head(chan))

\* ---------------------------------------------------------------------------
\* Every applied change is rendered
\* ---------------------------------------------------------------------------

\* The aggregator loop ends by this step.
LoopEnds == rxAlive /\ ~rxAlive'

\* C32 (as claimed): a change the aggregator applied is rendered before the
\* loop terminates, also when the channel is closed right after the change:
\* the loop never ends while a render is owed.
C32_RenderedBeforeExit == [][LoopEnds => ~pendingEdit]_vars

\* ---------------------------------------------------------------------------
\* A failed edit of the progress message
\* ---------------------------------------------------------------------------

\* The timer branch of select! can be taken: an edit is pending and its
\* sleep has run out.
EditDue == rxAlive /\ pendingEdit /\ SleepOver

\* C33 (as claimed): an edit of the progress message that returns an error
\* does not stop the aggregator.  With senders that never go away the timer
\* branch is the only place where the loop can end, so the loop is never
\* ended by a step taken while an edit is due.
C33_EditFailureSurvived == [][EditDue => rxAlive']_vars

\* ---------------------------------------------------------------------------
\* The encoder processes of one track
\* ---------------------------------------------------------------------------

\* The attempt of t in progress has an ffmpeg process (Transcoder::new has
\* returned, child.wait() has not).
EncoderRunning(t) == pc[t] \in {"read", "wait"}

\* C34 (as claimed): at most one ffmpeg process started for a track is alive
\* at any moment: the process of a failed attempt is gone before the next
\* attempt of the track starts its own on the same path.
C34_OneEncoderPerTrack ==
    \A t \in Tasks : ~(t \in orphaned /\ EncoderRunning(t))

\* ---------------------------------------------------------------------------
\* The order in which begin admits
\* ---------------------------------------------------------------------------

\* begin has returned its handles.
BeginReturned(r) == cursor[r] = ntracks[r] + 2

\* The tracks of run r that were admitted and have not resolved.
Unresolved(r) == {t \in Tasks : t[1] = r /\ pc[t] \notin {"pending", "skipped", "ok", "failed"}}

C35_AlbumOrder ==
    \A r \in runs :
        /\ \A t \in Tasks :
              (t[1] = r /\ pc[t] # "pending")
                  => /\ cursor[r] > t[2]
                     /\ \A u \in Tasks : (u[1] = r /\ u[2] < t[2]) => pc[u] # "pending"
                     /\ pc[t] # "skipped" => attempts[t] >= 1 \/ holds[t]
        /\ (artPc[r] # "pending" \/ BeginReturned(r))
              => \A t \in Tasks : t[1] = r => pc[t] # "pending"
        /\ BeginReturned(r) => artPc[r] # "pending"
        /\ Cardinality(Unresolved(r)) <= trackCap

C35_AdmitStep ==
    \A t \in Tasks :
        (pc[t] = "pending" /\ pc'[t] # "pending" /\ pc'[t] # "skipped")
            => /\ pc'[t] = "spawned"
               /\ trackPermits > 0
               /\ holds'[t] /\ trackPermits' = trackPermits - 1
               /\ cursor[t[1]] = t[2] /\ cursor'[t[1]] = t[2] + 1
               /\ artPc[t[1]] = "pending"

C35_AllReturned == \A r \in runs : BeginReturned(r)

WaitsForPermit(s) == \E i \in 1 .. Len(segs[s]) : segs[s][i].state = "waiting"

\* A fetch task of a stream that has already failed takes a chunk permit
\* while a fetch of another stream, still being consumed, waits for one.
AbandonedAcquires ==
    \E s \in streams, u \in streams :
        /\ phase[s] = "failed"
        /\ u # s /\ phase[u] = "collect" /\ WaitsForPermit(u)
        /\ \E i \in 1 .. Len(segs[s]) :
              segs[s][i].state = "waiting" /\ segs'[s][i].state = "fetching"

\* C36 (as claimed): once a segmented stream has failed, the fetches it had
\* dispatched take no chunk permit any more while another track waits for one.
C36_AbandonedTakeNoPermit == [][~AbandonedAcquires]_vars

====
